---- MODULE Spec2Model ----
(***************************************************************************)
(* Model of the matsu-companion launcher extension: the formula-schema     *)
(* backend adapter (MatsuAPI: request, login, getMonitors,                 *)
(* parseAlertCondition, getAlertConfigs), the alert evaluator              *)
(* (isValueOutOfRange) and the places of the three views (monitors list,   *)
(* alerts view, menu bar) that compute breach state from the fetched data, *)
(* the sort strategies of the views and the submit handlers of the forms,  *)
(* the calls of request and login one await at a time, the rotation of the *)
(* menu bar's title, the local aliases and tags over LocalStorage, and the *)
(* alert config actions with the refresh that follows them.                *)
(*                                                                         *)
(* Text is modelled as a sequence of one-character strings, so that the    *)
(* regular expressions of parseAlertCondition are computed character by    *)
(* character.  A JavaScript number is a record [num, frac]: num is the     *)
(* floor of the number and frac the decimal digits after the point, with   *)
(* no trailing zero; null and NaN are records of their own.                *)
(***************************************************************************)
EXTENDS Integers, Sequences, FiniteSets, TLC

VARIABLES
    apiRules,       \* backend: the alert rules GET /api/alert-rules answers with
    apiMonitors,    \* backend: the monitors GET /api/monitors answers with
    sessionCookie,  \* MatsuAPI.sessionCookie
    monitors,       \* the views' getMonitors promise: its response and its data
    alerts,         \* the views' getAlertConfigs promise: its responses and its data
    evalCall,       \* one call of isValueOutOfRange: its arguments and its result
    parseCall,      \* one call of parseAlertCondition: its argument and its result
    sortCall,       \* one sort of a view's list: the strategy, the custom order, the result
    formCall,       \* one submit of a form: its fields and what the handler did
    session,        \* the calls of MatsuAPI.request so far, each with its position
    menuBar,        \* the menu bar command: its preference, its data, its rotation
    store,          \* LocalStorage and the calls of the local-aliases module
    writeCall       \* one alert config action of a view and the refresh after it

vars == <<apiRules, apiMonitors, sessionCookie, monitors, alerts, evalCall, parseCall,
          sortCall, formCall, session, menuBar, store, writeCall>>

----------------------------------------------------------------------------
(* JavaScript values *)

NULL == [null |-> TRUE]

NaN == [nan |-> TRUE]

UNDEF == [undefined |-> TRUE]

Num(n) == [num |-> n, frac |-> <<>>]

IsNum(x) == x # NULL /\ x # NaN /\ x # UNDEF

\* ToBoolean of a number | null | undefined: null, undefined, NaN and 0 are falsy.
Truthy(x) == IsNum(x) /\ ~(x.num = 0 /\ x.frac = <<>>)

\* f > g for two digit sequences read as decimal fractions 0.f and 0.g
RECURSIVE FracGt(_, _)
FracGt(f, g) ==
    IF f = <<>> THEN FALSE
    ELSE IF g = <<>> THEN TRUE
    ELSE IF Head(f) # Head(g) THEN Head(f) > Head(g)
    ELSE FracGt(Tail(f), Tail(g))

\* a > b on numbers; a comparison with NaN is false.
NumGt(a, b) ==
    /\ IsNum(a)
    /\ IsNum(b)
    /\ IF a.num # b.num THEN a.num > b.num ELSE FracGt(a.frac, b.frac)

NumLt(a, b) == NumGt(b, a)

----------------------------------------------------------------------------
(* Call records of the two pure functions *)

\* A call record: returned says whether the call has run; result is its value.
IdleEval == [value |-> NULL, upperThreshold |-> NULL, lowerThreshold |-> NULL,
             returned |-> FALSE, result |-> FALSE]

IdleParse == [clauses |-> <<>>, condition |-> <<>>, returned |-> FALSE, result |-> UNDEF]

\* No list is being sorted.
IdleSort == [view |-> "none", sortBy |-> "none", customOrder |-> <<>>,
             returned |-> FALSE, result |-> <<>>]

\* No form is open.
IdleForm == [form |-> "none", name |-> <<>>, value |-> <<>>, upperThreshold |-> <<>>,
             lowerThreshold |-> <<>>, submits |-> 0, apiCalls |-> 0, sent |-> NULL,
             open |-> FALSE, toast |-> "none"]

\* No call of request was made.
IdleSession == [calls |-> <<>>, operations |-> 0]

\* The menu bar command does not run.
IdleMenuBar == [running |-> FALSE]

\* The local-aliases module is not in use.
IdleStore == [running |-> FALSE, aliases |-> NULL, tags |-> NULL, calls |-> <<>>,
              clock |-> 0]

\* No alert config action was taken.
IdleWrite == [action |-> "none", writes |-> 0, revalidated |-> FALSE]

----------------------------------------------------------------------------
(* utils.ts *)

\* The same function without the guard on a null value: the comparisons then
\* see null as 0.
IsValueOutOfRangeNoNullGuard(value, upperThreshold, lowerThreshold) ==
    LET v == IF value = NULL THEN Num(0) ELSE value
    IN  IF Truthy(upperThreshold) /\ NumGt(v, upperThreshold) THEN TRUE
        ELSE IF Truthy(lowerThreshold) /\ NumLt(v, lowerThreshold) THEN TRUE
        ELSE FALSE

IsValueOutOfRange(value, upperThreshold, lowerThreshold) ==
    IF value = NULL THEN FALSE
    ELSE IF Truthy(upperThreshold) /\ NumGt(value, upperThreshold) THEN TRUE
    ELSE IF Truthy(lowerThreshold) /\ NumLt(value, lowerThreshold) THEN TRUE
    ELSE FALSE

----------------------------------------------------------------------------
(* Text: a string is a sequence of one-character strings *)

DigitChars == <<"0", "1", "2", "3", "4", "5", "6", "7", "8", "9">>

IsDigit(c) == \E d \in 1..10 : DigitChars[d] = c

DigitVal(c) == (CHOOSE d \in 1..10 : DigitChars[d] = c) - 1

\* \s of the regular expressions, for the characters of the modelled texts
IsSpace(c) == c = " "

\* [0-9.] of the regular expressions
IsNumChar(c) == IsDigit(c) \/ c = "."

\* s.startsWith(lit, i - 1), positions counted from 1
StartsWithAt(s, i, lit) ==
    /\ i + Len(lit) - 1 <= Len(s)
    /\ \A k \in 1..Len(lit) : s[i + k - 1] = lit[k]

\* The first position >= i of s whose character does not satisfy the class,
\* Len(s) + 1 when there is none: where a greedy run of the class from i ends.
RECURSIVE SkipSpaces(_, _)
SkipSpaces(s, i) ==
    IF i <= Len(s) /\ IsSpace(s[i]) THEN SkipSpaces(s, i + 1) ELSE i

RECURSIVE SkipNumChars(_, _)
SkipNumChars(s, i) ==
    IF i <= Len(s) /\ IsNumChar(s[i]) THEN SkipNumChars(s, i + 1) ELSE i

RECURSIVE SkipDigits(_, _)
SkipDigits(s, i) ==
    IF i <= Len(s) /\ IsDigit(s[i]) THEN SkipDigits(s, i + 1) ELSE i

RECURSIVE SkipNotBrace(_, _)
SkipNotBrace(s, i) ==
    IF i <= Len(s) /\ s[i] # "}" THEN SkipNotBrace(s, i + 1) ELSE i

\* The number a non-empty sequence of digit characters writes
RECURSIVE DigitsToInt(_)
DigitsToInt(ds) ==
    IF ds = <<>> THEN 0
    ELSE 10 * DigitsToInt(SubSeq(ds, 1, Len(ds) - 1)) + DigitVal(ds[Len(ds)])

\* Digit characters as digit values, without the trailing zeros
RECURSIVE FracDigits(_)
FracDigits(ds) ==
    IF ds = <<>> THEN <<>>
    ELSE IF ds[Len(ds)] = "0" THEN FracDigits(SubSeq(ds, 1, Len(ds) - 1))
    ELSE [k \in 1..Len(ds) |-> DigitVal(ds[k])]

\* parseFloat of a text made of digits and points (what ([0-9.]+) captures):
\* the longest prefix digits [. digits] or . digits is read, NaN without one.
ParseFloat(s) ==
    LET intEnd == SkipDigits(s, 1)
        hasPoint == intEnd <= Len(s) /\ s[intEnd] = "."
        fracEnd == IF hasPoint THEN SkipDigits(s, intEnd + 1) ELSE intEnd
        intDigits == SubSeq(s, 1, intEnd - 1)
        fracDigits == IF hasPoint THEN SubSeq(s, intEnd + 1, fracEnd - 1) ELSE <<>>
    IN  IF intDigits = <<>> /\ fracDigits = <<>> THEN NaN
        ELSE [num |-> DigitsToInt(intDigits), frac |-> FracDigits(fracDigits)]

----------------------------------------------------------------------------
(* MatsuAPI.parseAlertCondition *)

MonitorRefOpen == <<"$", "{", "m", "o", "n", "i", "t", "o", "r", ":">>

ValueWord == <<"v", "a", "l", "u", "e">>

\* \$\{monitor:([^}]+)\} tried at position i: the position of the closing
\* brace, 0 when the pattern does not match there.
MonitorRefClose(s, i) ==
    IF ~StartsWithAt(s, i, MonitorRefOpen) THEN 0
    ELSE LET from == i + Len(MonitorRefOpen)
             close == SkipNotBrace(s, from)
         IN  IF close > from /\ close <= Len(s) THEN close ELSE 0

\* condition.match(/\$\{monitor:([^}]+)\}/): group 1 of the leftmost match,
\* NULL without a match.
RECURSIVE MonitorIdMatch(_, _)
MonitorIdMatch(s, i) ==
    IF i > Len(s) THEN NULL
    ELSE IF MonitorRefClose(s, i) # 0
         THEN [text |-> SubSeq(s, i + Len(MonitorRefOpen), MonitorRefClose(s, i) - 1)]
         ELSE MonitorIdMatch(s, i + 1)

\* (?:\$\{monitor:[^}]+\}|value) tried at position i: the position after the
\* reference, 0 when neither alternative matches there.
ReferenceEnd(s, i) ==
    IF MonitorRefClose(s, i) # 0 THEN MonitorRefClose(s, i) + 1
    ELSE IF StartsWithAt(s, i, ValueWord) THEN i + Len(ValueWord)
    ELSE 0

\* (?:\$\{monitor:[^}]+\}|value)\s*OP\s*([0-9.]+) tried at position i: group 1,
\* NULL when the pattern does not match there.
ThresholdMatchAt(s, i, op) ==
    LET refEnd == ReferenceEnd(s, i)
        opAt == SkipSpaces(s, refEnd)
        numAt == SkipSpaces(s, opAt + 1)
        numEnd == SkipNumChars(s, numAt)
    IN  IF refEnd = 0 THEN NULL
        ELSE IF ~(opAt <= Len(s) /\ s[opAt] = op) THEN NULL
        ELSE IF numEnd = numAt THEN NULL
        ELSE [text |-> SubSeq(s, numAt, numEnd - 1)]

\* condition.match of the threshold pattern: group 1 of the leftmost match
RECURSIVE ThresholdMatch(_, _, _)
ThresholdMatch(s, i, op) ==
    IF i > Len(s) THEN NULL
    ELSE IF ThresholdMatchAt(s, i, op) # NULL THEN ThresholdMatchAt(s, i, op)
    ELSE ThresholdMatch(s, i + 1, op)

\* parseAlertCondition(condition), the optional monitorId argument absent
\* as in its one call site.
ParseAlertCondition(condition) ==
    LET monitorIdMatch == MonitorIdMatch(condition, 1)
        upperMatch == ThresholdMatch(condition, 1, ">")
        lowerMatch == ThresholdMatch(condition, 1, "<")
    IN  [upper_threshold |->
            IF upperMatch # NULL THEN ParseFloat(upperMatch.text) ELSE NULL,
         lower_threshold |->
            IF lowerMatch # NULL THEN ParseFloat(lowerMatch.text) ELSE NULL,
         monitor_id |->
            IF monitorIdMatch # NULL THEN monitorIdMatch.text ELSE NULL]

----------------------------------------------------------------------------
(* Condition texts: what a rule author writes *)

M1 == <<"m", "1">>

M2 == <<"m", "2">>

M3 == <<"m", "3">>

MonitorRef(id) == MonitorRefOpen \o id \o <<"}">>

\* The decimal digits of a natural number
RECURSIVE NatToString(_)
NatToString(n) ==
    IF n < 10 THEN <<DigitChars[n + 1]>>
    ELSE NatToString(n \div 10) \o <<DigitChars[(n % 10) + 1]>>

\* String(x) of an integer, or of a number >= 0 with a fraction
NumberToString(x) ==
    IF x.num < 0 THEN <<"-">> \o NatToString(-x.num)
    ELSE IF x.frac = <<>> THEN NatToString(x.num)
    ELSE NatToString(x.num) \o <<".">> \o [k \in 1..Len(x.frac) |-> DigitChars[x.frac[k] + 1]]

\* A clause is a left-hand side, a comparison operator and a number.  The
\* left-hand side is a monitor reference, the word value, or another word.
ClauseRefs == {[monitor |-> M1], [monitor |-> M2], [word |-> ValueWord],
               [word |-> <<"f", "o", "o">>]}

ClauseOps == {<<">">>, <<"<">>, <<">", "=">>}

ClauseNumbers == {Num(100), Num(0), Num(-5), [num |-> 1, frac |-> <<5>>]}

ClauseSpacings == {<<" ">>, <<>>}

Clauses == [ref : ClauseRefs, op : ClauseOps, number : ClauseNumbers]

IsMonitorClause(c) == "monitor" \in DOMAIN c.ref

IsReferenceClause(c) == IsMonitorClause(c) \/ c.ref = [word |-> ValueWord]

\* spacing is the text written on both sides of the operator
ClauseText(c, spacing) ==
    (IF IsMonitorClause(c) THEN MonitorRef(c.ref.monitor) ELSE c.ref.word)
        \o spacing \o c.op \o spacing \o NumberToString(c.number)

\* The clauses of a condition are joined by " OR ", as updateAlertConfig joins them.
RECURSIVE ConditionText(_, _)
ConditionText(cs, spacing) ==
    IF cs = <<>> THEN <<>>
    ELSE IF Len(cs) = 1 THEN ClauseText(cs[1], spacing)
    ELSE ClauseText(cs[1], spacing) \o <<" ", "O", "R", " ">>
            \o ConditionText(Tail(cs), spacing)

\* A condition without any clause
FooBar == <<"f", "o", "o", " ", "b", "a", "r">>

MaxClauses == 2

ClauseLists == UNION {[1..n -> Clauses] : n \in 0..MaxClauses}

InitParse ==
    /\ apiRules = <<>>
    /\ apiMonitors = <<>>
    /\ sessionCookie = NULL
    /\ session = IdleSession
    /\ menuBar = IdleMenuBar
    /\ store = IdleStore
    /\ writeCall = IdleWrite
    /\ monitors = UNDEF
    /\ alerts = UNDEF
    /\ evalCall = IdleEval
    /\ sortCall = IdleSort
    /\ formCall = IdleForm
    /\ \E cs \in ClauseLists, spacing \in ClauseSpacings :
          parseCall = [clauses |-> cs,
                       condition |-> IF cs = <<>> THEN FooBar
                                     ELSE ConditionText(cs, spacing),
                       returned |-> FALSE, result |-> UNDEF]

Parse ==
    /\ ~parseCall.returned
    /\ parseCall' = [parseCall EXCEPT !.returned = TRUE,
                                      !.result = ParseAlertCondition(parseCall.condition)]
    /\ UNCHANGED <<apiRules, apiMonitors, sessionCookie, monitors, alerts, evalCall,
                   sortCall, formCall,
                   session, menuBar, store, writeCall>>

NextParse == Parse

SpecParse == InitParse /\ [][NextParse]_vars

----------------------------------------------------------------------------
(* The backend's data *)

MonitorIds == <<M1, M2, M3>>

MonitorNames == <<<<"B", "t", "c">>, <<"e", "t", "h">>, <<"S", "o", "l">>>>

MonitorValues == {NULL, Num(150)}

\* The text of a date and time: time is the instant it names, in seconds, and
\* zs the number of letters Z that end the text.
Timestamp(time, z) == [time |-> time, zs |-> IF z THEN 1 ELSE 0]

\* The backend's answer to GET /api/monitors: monitors with distinct ids, in
\* any order, each with a value or none.
MonitorLists ==
    LET n == Len(MonitorIds)
        monitor(i, value) ==
            [id |-> MonitorIds[i], name |-> MonitorNames[i], unit |-> NULL,
             description |-> NULL, color |-> NULL, value |-> value,
             computed_at |-> IF value = NULL THEN NULL ELSE Timestamp(i, FALSE),
             updated_at |-> Timestamp(i, FALSE)]
        orders == {f \in UNION {[1..len -> 1..n] : len \in 0..n} :
                      \A a, b \in DOMAIN f : a # b => f[a] # f[b]}
    IN  UNION {{[k \in DOMAIN f |-> monitor(f[k], values[k])]
                   : values \in [DOMAIN f -> MonitorValues]}
               : f \in orders}

\* "value > 100 OR value < 5": a rule for every monitor
GlobalCondition ==
    ConditionText(<<[ref |-> [word |-> ValueWord], op |-> <<">">>, number |-> Num(100)],
                    [ref |-> [word |-> ValueWord], op |-> <<"<">>, number |-> Num(5)]>>,
                  <<" ">>)

\* "${monitor:m2} > 200": a rule for the monitor m2
M2Condition ==
    ConditionText(<<[ref |-> [monitor |-> M2], op |-> <<">">>, number |-> Num(200)]>>,
                  <<" ">>)

RuleKinds == {[condition |-> GlobalCondition, level |-> "medium"],
              [condition |-> M2Condition, level |-> "critical"],
              [condition |-> FooBar, level |-> "high"]}

MaxRules == 2

\* The backend stamps a rule with the time of its creation, later rules later.
RuleLists ==
    LET stamp(kinds, enabled) ==
            [k \in 1..Len(kinds) |->
                [condition |-> kinds[k].condition, level |-> kinds[k].level,
                 enabled |-> enabled[k], created_at |-> k, updated_at |-> k]]
    IN  UNION {{stamp(kinds, enabled) : kinds \in [1..n -> RuleKinds],
                                        enabled \in [1..n -> BOOLEAN]}
               : n \in 0..MaxRules}

----------------------------------------------------------------------------
(* The backend's data when a view sorts *)

M4 == <<"m", "4">>

\* Four monitors: two whose names differ in case only, one without a name;
\* two with the same value, one or two without a value; two computed at the
\* same time, and one never computed whose updated_at ends with the letter Z.
SortMonitorPool ==
    LET monitor(id, name, value, computed_at, updated_at) ==
            [id |-> id, name |-> name, unit |-> NULL, description |-> NULL,
             color |-> NULL, value |-> value, computed_at |-> computed_at,
             updated_at |-> updated_at]
    IN  <<{monitor(M1, <<"B", "t", "c">>, Num(150), Timestamp(2, FALSE), Timestamp(1, FALSE))},
          {monitor(M2, <<"b", "t", "c">>, NULL, NULL, Timestamp(1, TRUE))},
          {monitor(M3, <<"e", "t", "h">>, Num(150), Timestamp(3, FALSE), Timestamp(3, FALSE))},
          {monitor(M4, <<>>, Num(5), Timestamp(2, FALSE), Timestamp(2, FALSE)),
           monitor(M4, <<>>, NULL, Timestamp(2, FALSE), Timestamp(2, FALSE))}>>

MaxItems == 3

\* The backend's answer to GET /api/monitors: up to MaxItems monitors of the
\* pool with distinct ids, in any order.
SortMonitorLists ==
    LET n == Len(SortMonitorPool)
        orders == {f \in UNION {[1..len -> 1..n] : len \in 0..MaxItems} :
                      \A a, b \in DOMAIN f : a # b => f[a] # f[b]}
    IN  UNION {{list \in [DOMAIN f -> UNION {SortMonitorPool[i] : i \in 1..n}] :
                   \A k \in DOMAIN f : list[k] \in SortMonitorPool[f[k]]}
               : f \in orders}

\* "${monitor:id} op number"
MonitorCondition(id, op, number) ==
    ConditionText(<<[ref |-> [monitor |-> id], op |-> op, number |-> number]>>, <<" ">>)

\* For each monitor of the pool, the rules the backend may have for it (NULL:
\* none).  With the pool's values, m1's first rule, m3's first rule and m4's
\* rule are breached and the others are not.
SortRulePool ==
    <<{[condition |-> MonitorCondition(M1, <<">">>, Num(100)), level |-> "critical"],
       [condition |-> MonitorCondition(M1, <<">">>, Num(200)), level |-> "low"]},
      {NULL,
       [condition |-> MonitorCondition(M2, <<">">>, Num(100)), level |-> "high"]},
      {[condition |-> MonitorCondition(M3, <<">">>, Num(100)), level |-> "low"],
       [condition |-> MonitorCondition(M3, <<"<">>, Num(10)), level |-> "info"]},
      {[condition |-> MonitorCondition(M4, <<"<">>, Num(10)), level |-> "critical"],
       NULL}>>

SortRuleKinds == UNION {SortRulePool[i] : i \in 1..Len(SortRulePool)} \ {NULL}

\* The backend's answer to GET /api/alert-rules: at most one rule per monitor
\* of the pool, all enabled, stamped in the order of their creation.
SortRuleLists ==
    LET n == Len(SortRulePool)
        present(kind) == kind # NULL
        stamp(kinds) ==
            [k \in 1..Len(kinds) |->
                [condition |-> kinds[k].condition, level |-> kinds[k].level,
                 enabled |-> TRUE, created_at |-> k, updated_at |-> k]]
    IN  {stamp(SelectSeq(choice, present)) :
            choice \in {c \in [1..n -> UNION {SortRulePool[i] : i \in 1..n}] :
                           \A i \in 1..n : c[i] \in SortRulePool[i]}}

MaxOrder == 2

\* The custom-order preference after split, trim and filter: up to MaxOrder
\* distinct ids.
CustomOrders ==
    LET ids == {M1, M2, M3, M4}
    IN  {order \in UNION {[1..len -> ids] : len \in 0..MaxOrder} :
            \A a, b \in DOMAIN order : a # b => order[a] # order[b]}

----------------------------------------------------------------------------
(* MatsuAPI: the formula-schema client *)

\* The value of a set-cookie header
COOKIE == [cookie |-> "session"]

\* The cookie the client holds after the requests of one call: login() and
\* request() store the set-cookie header of a response that has one, and
\* nothing else assigns sessionCookie.  setCookie says whether any response
\* to the call's requests (the logins included) came with the header.
StoreCookie(cookie, setCookie) == IF setCookie THEN COOKIE ELSE cookie

\* A transformMonitor that copies the backend's fields and adds none.
TransformMonitorCopyOnly(apiMonitor) ==
    [monitor_id |-> apiMonitor.id,
     monitor_name |-> apiMonitor.name,
     unit |-> apiMonitor.unit,
     color |-> apiMonitor.color,
     description |-> apiMonitor.description,
     latest_value |-> apiMonitor.value,
     latest_timestamp |-> IF apiMonitor.computed_at # NULL THEN apiMonitor.computed_at
                          ELSE apiMonitor.updated_at]

\* transformMonitor
TransformMonitor(apiMonitor) ==
    [monitor_id |-> apiMonitor.id,
     monitor_name |-> apiMonitor.name,
     monitor_type |-> "monitor",
     url |-> "",
     unit |-> apiMonitor.unit,
     color |-> apiMonitor.color,
     description |-> apiMonitor.description,
     tags |-> NULL,
     total_records |-> 0,
     latest_value |-> apiMonitor.value,
     latest_timestamp |-> IF apiMonitor.computed_at # NULL THEN apiMonitor.computed_at
                          ELSE apiMonitor.updated_at,
     min_value |-> NULL,
     max_value |-> NULL,
     avg_value |-> NULL,
     change_count |-> 0]

\* getMonitors: what the call ends with, given whether its request succeeded.
GetMonitorsReturn(ok, fetched) ==
    IF ok THEN [threw |-> FALSE,
                data |-> [k \in 1..Len(fetched) |-> TransformMonitor(fetched[k])]]
    ELSE [threw |-> FALSE, data |-> <<>>]

\* monitors.find((m) => m.id === monitor_id): the index, 0 for undefined
FindMonitor(mons, monitor_id) ==
    IF \E k \in 1..Len(mons) : mons[k].id = monitor_id
    THEN CHOOSE k \in 1..Len(mons) :
            mons[k].id = monitor_id /\ \A j \in 1..(k - 1) : mons[j].id # monitor_id
    ELSE 0

\* The AlertConfig pushed for a monitor id and a rule
AlertConfig(monitor_id, parsed, rule) ==
    [monitor_id |-> monitor_id,
     upper_threshold |-> parsed.upper_threshold,
     lower_threshold |-> parsed.lower_threshold,
     alert_level |-> rule.level,
     created_at |-> rule.created_at,
     updated_at |-> rule.updated_at]

\* A loop that processes disabled rules too.
RuleSkippedNever(rule) == FALSE

\* if (!rule.enabled) continue
RuleSkipped(rule) == ~rule.enabled

\* A loop that keeps the rules without thresholds.
NoThresholdsNever(parsed) == FALSE

\* if (upper_threshold === null && lower_threshold === null) continue
NoThresholds(parsed) ==
    parsed.upper_threshold = NULL /\ parsed.lower_threshold = NULL

\* The branch of a rule that names a monitor, without the lookup in the
\* fetched monitors.
SpecificConfigsNoLookup(rule, parsed, mons) ==
    <<AlertConfig(parsed.monitor_id, parsed, rule)>>

\* The configs pushed for a rule that names a monitor
SpecificConfigs(rule, parsed, mons) ==
    LET found == FindMonitor(mons, parsed.monitor_id)
    IN  IF found # 0 THEN <<AlertConfig(mons[found].id, parsed, rule)>> ELSE <<>>

\* The branch of a global rule that stops after the first monitor.
GlobalConfigsFirstOnly(rule, parsed, mons) ==
    IF mons = <<>> THEN <<>> ELSE <<AlertConfig(mons[1].id, parsed, rule)>>

\* The configs pushed for a rule that names no monitor
GlobalConfigs(rule, parsed, mons) ==
    [k \in 1..Len(mons) |-> AlertConfig(mons[k].id, parsed, rule)]

\* The thresholds a caller passes to updateAlertConfig: undefined or a number
WriteThresholds == {UNDEF, Num(100), Num(-5)}

\* updateAlertConfig: the condition it builds, `value > ${upperThreshold}`
\* and `value < ${lowerThreshold}` joined by " OR "
UpdateAlertConfigCondition(upperThreshold, lowerThreshold) ==
    LET clause(op, number) ==
            [ref |-> [word |-> ValueWord], op |-> <<op>>, number |-> number]
        conditions ==
            (IF upperThreshold # UNDEF THEN <<clause(">", upperThreshold)>> ELSE <<>>)
            \o (IF lowerThreshold # UNDEF THEN <<clause("<", lowerThreshold)>> ELSE <<>>)
    IN  ConditionText(conditions, <<" ">>)

WriteConditions ==
    {UpdateAlertConfigCondition(upper, lower) :
        upper \in WriteThresholds, lower \in WriteThresholds}

\* parseAlertCondition(c) for each condition c the backend's rules have,
\* computed once
ParsedConditions ==
    [c \in {kind.condition : kind \in RuleKinds \cup SortRuleKinds}
               \cup WriteConditions |->
        ParseAlertCondition(c)]

\* One iteration of the loop over the rules: the configs it pushes
RuleConfigs(rule, mons) ==
    LET parsed == ParsedConditions[rule.condition]
    IN  IF RuleSkipped(rule) THEN <<>>
        ELSE IF NoThresholds(parsed) THEN <<>>
        ELSE IF parsed.monitor_id # NULL THEN SpecificConfigs(rule, parsed, mons)
        ELSE GlobalConfigs(rule, parsed, mons)

\* A push that puts the new configs in front of the list.
PushConfigsInFront(configs, pushed) == pushed \o configs

\* configs.push(...): the configs of one rule go to the end of the list
PushConfigs(configs, pushed) == configs \o pushed

\* The loop over alertRules from rule i on, configs being the list so far
RECURSIVE AlertConfigsLoop(_, _, _, _)
AlertConfigsLoop(alertRules, mons, i, configs) ==
    IF i > Len(alertRules) THEN configs
    ELSE AlertConfigsLoop(alertRules, mons, i + 1,
                          PushConfigs(configs, RuleConfigs(alertRules[i], mons)))

\* getAlertConfigs with its catch removed: a failed request rejects the promise.
GetAlertConfigsReturnNoCatch(rulesOk, monitorsOk, alertRules, mons) ==
    IF rulesOk /\ monitorsOk
    THEN [threw |-> FALSE, data |-> AlertConfigsLoop(alertRules, mons, 1, <<>>)]
    ELSE [threw |-> TRUE, data |-> <<>>]

\* getAlertConfigs: what the call ends with, given whether its two requests
\* succeeded (Promise.all rejects when either does).
GetAlertConfigsReturn(rulesOk, monitorsOk, alertRules, mons) ==
    IF rulesOk /\ monitorsOk
    THEN [threw |-> FALSE, data |-> AlertConfigsLoop(alertRules, mons, 1, <<>>)]
    ELSE [threw |-> FALSE, data |-> <<>>]

----------------------------------------------------------------------------
(* The views' two promises *)

Init ==
    /\ apiRules \in RuleLists
    /\ apiMonitors \in MonitorLists
    /\ sessionCookie = NULL
    /\ session = IdleSession
    /\ menuBar = IdleMenuBar
    /\ store = IdleStore
    /\ writeCall = IdleWrite
    /\ monitors = UNDEF
    /\ alerts = UNDEF
    /\ evalCall = IdleEval
    /\ parseCall = IdleParse
    /\ sortCall = IdleSort
    /\ formCall = IdleForm

\* usePromise(api.getMonitors): one run of the promise.  ok is false when the
\* request fails (a transport error or a non-OK status).
GetMonitors ==
    \E ok \in BOOLEAN, setCookie \in BOOLEAN :
        /\ sessionCookie' = StoreCookie(sessionCookie, setCookie)
        /\ LET fetched == IF ok THEN apiMonitors ELSE <<>>
               return == GetMonitorsReturn(ok, fetched)
           IN  monitors' = [ok |-> ok, apiMonitors |-> fetched,
                            threw |-> return.threw, data |-> return.data]
        /\ UNCHANGED <<apiRules, apiMonitors, alerts, evalCall, parseCall,
                       sortCall, formCall,
                   session, menuBar, store, writeCall>>

\* usePromise(api.getAlertConfigs): one run of the promise, with the two
\* requests of its Promise.all.
GetAlertConfigs ==
    \E rulesOk \in BOOLEAN, monitorsOk \in BOOLEAN, setCookie \in BOOLEAN :
        /\ sessionCookie' = StoreCookie(sessionCookie, setCookie)
        /\ LET alertRules == IF rulesOk THEN apiRules ELSE <<>>
               fetched == IF monitorsOk THEN apiMonitors ELSE <<>>
               return == GetAlertConfigsReturn(rulesOk, monitorsOk, alertRules, fetched)
           IN  alerts' = [rulesOk |-> rulesOk, monitorsOk |-> monitorsOk,
                          alertRules |-> alertRules, monitors |-> fetched,
                          threw |-> return.threw, data |-> return.data]
        /\ UNCHANGED <<apiRules, apiMonitors, monitors, evalCall, parseCall,
                       sortCall, formCall,
                   session, menuBar, store, writeCall>>

Next == GetMonitors \/ GetAlertConfigs

Spec == Init /\ [][Next]_vars

----------------------------------------------------------------------------
(* What the views compute from the two promises *)

\* data of a promise is undefined until the promise resolves
HasMonitors == monitors # UNDEF /\ ~monitors.threw

HasAlerts == alerts # UNDEF /\ ~alerts.threw

\* A Map is a function on the set of its keys.
EmptyMap == <<>>

\* map.set(key, value)
MapSet(map, key, value) ==
    [k \in DOMAIN map \cup {key} |-> IF k = key THEN value ELSE map[k]]

\* A Map constructor that keeps the first entry of a key.
RECURSIVE NewMapFirstWins(_)
NewMapFirstWins(configs) ==
    IF configs = <<>> THEN EmptyMap
    ELSE MapSet(NewMapFirstWins(Tail(configs)), Head(configs).monitor_id, Head(configs))

\* new Map(alerts.map((a) => [a.monitor_id, a])): the entries are set in order
RECURSIVE NewMap(_)
NewMap(configs) ==
    IF configs = <<>> THEN EmptyMap
    ELSE LET last == configs[Len(configs)]
         IN  MapSet(NewMap(SubSeq(configs, 1, Len(configs) - 1)), last.monitor_id, last)

\* The monitors list: configs.forEach((config) => alertMap.set(config.monitor_id, config))
RECURSIVE ListMonitorsAlertMap(_)
ListMonitorsAlertMap(configs) ==
    IF configs = <<>> THEN EmptyMap
    ELSE LET last == configs[Len(configs)]
         IN  MapSet(ListMonitorsAlertMap(SubSeq(configs, 1, Len(configs) - 1)),
                    last.monitor_id, last)

\* The monitors list: alerts?.get(id) and the breach state of a monitor
ListMonitorsIsBreached(monitor) ==
    LET alertMap == IF HasAlerts THEN ListMonitorsAlertMap(alerts.data) ELSE EmptyMap
    IN  IF monitor.monitor_id \in DOMAIN alertMap
        THEN IsValueOutOfRange(monitor.latest_value,
                               alertMap[monitor.monitor_id].upper_threshold,
                               alertMap[monitor.monitor_id].lower_threshold)
        ELSE FALSE

\* The alerts view: monitors.forEach pushing an item for a monitor with a config
RECURSIVE AlertItemsLoop(_, _, _, _)
AlertItemsLoop(mons, alertMap, i, alertItems) ==
    IF i > Len(mons) THEN alertItems
    ELSE IF mons[i].monitor_id \in DOMAIN alertMap
    THEN LET config == alertMap[mons[i].monitor_id]
             isActive == IsValueOutOfRange(mons[i].latest_value, config.upper_threshold,
                                           config.lower_threshold)
         IN  AlertItemsLoop(mons, alertMap, i + 1,
                 Append(alertItems,
                        [monitor |-> mons[i], config |-> config, isActive |-> isActive]))
    ELSE AlertItemsLoop(mons, alertMap, i + 1, alertItems)

\* The alerts view: alertItems
ViewAlertsItems ==
    IF HasMonitors /\ HasAlerts
    THEN AlertItemsLoop(monitors.data, NewMap(alerts.data), 1, <<>>)
    ELSE <<>>

\* The menu bar: alerts
MenuBarAlerts == IF HasAlerts THEN NewMap(alerts.data) ELSE EmptyMap

\* The menu bar: the monitors its filter keeps, the ones counted as active alerts
MenuBarActiveAlerts ==
    LET Active(monitor) ==
            /\ monitor.monitor_id \in DOMAIN MenuBarAlerts
            /\ IsValueOutOfRange(monitor.latest_value,
                                 MenuBarAlerts[monitor.monitor_id].upper_threshold,
                                 MenuBarAlerts[monitor.monitor_id].lower_threshold)
    IN  IF HasMonitors THEN SelectSeq(monitors.data, Active) ELSE <<>>

\* The menu bar: activeAlertsCount
MenuBarActiveAlertsCount == Len(MenuBarActiveAlerts)

----------------------------------------------------------------------------
(* Sorting: the texts and numbers the comparators compute with *)

LowerChars == <<"a", "b", "c", "d", "e", "f", "g", "h", "i", "j", "k", "l", "m",
                "n", "o", "p", "q", "r", "s", "t", "u", "v", "w", "x", "y", "z">>

UpperChars == <<"A", "B", "C", "D", "E", "F", "G", "H", "I", "J", "K", "L", "M",
                "N", "O", "P", "Q", "R", "S", "T", "U", "V", "W", "X", "Y", "Z">>

\* String.prototype.toLowerCase
ToLowerCase(s) ==
    [k \in 1..Len(s) |->
        IF \E u \in 1..Len(UpperChars) : UpperChars[u] = s[k]
        THEN LowerChars[CHOOSE u \in 1..Len(UpperChars) : UpperChars[u] = s[k]]
        ELSE s[k]]

\* The order of the characters of lower-case names and ids under localeCompare:
\* digits before letters, letters in alphabetical order.
CollationChars == DigitChars \o LowerChars

CollationKey(c) == CHOOSE k \in 1..Len(CollationChars) : CollationChars[k] = c

\* a.localeCompare(b) for texts of digits and lower-case letters
RECURSIVE LocaleCompare(_, _)
LocaleCompare(a, b) ==
    IF a = <<>> /\ b = <<>> THEN 0
    ELSE IF a = <<>> THEN -1
    ELSE IF b = <<>> THEN 1
    ELSE IF CollationKey(Head(a)) < CollationKey(Head(b)) THEN -1
    ELSE IF CollationKey(Head(a)) > CollationKey(Head(b)) THEN 1
    ELSE LocaleCompare(Tail(a), Tail(b))

\* -Infinity
NEG_INFINITY == [inf |-> -1]

\* Infinity
POS_INFINITY == [inf |-> 1]

IsInfinite(x) == x = NEG_INFINITY \/ x = POS_INFINITY

\* a - b for JavaScript numbers.  The difference of two finite numbers keeps
\* their sign relation; of whole numbers it is exact.
JsSub(a, b) ==
    IF a = NaN \/ b = NaN THEN NaN
    ELSE IF IsInfinite(a) /\ IsInfinite(b) THEN (IF a = b THEN NaN ELSE a)
    ELSE IF IsInfinite(a) THEN a
    ELSE IF IsInfinite(b) THEN [inf |-> 0 - b.inf]
    ELSE IF a.frac = <<>> /\ b.frac = <<>> THEN Num(a.num - b.num)
    ELSE IF NumGt(a, b) THEN Num(1)
    ELSE IF NumLt(a, b) THEN Num(-1)
    ELSE Num(0)

\* text + "Z"
AppendZ(text) == [text EXCEPT !.zs = @ + 1]

\* new Date(text).getTime(): NaN for a text that is not a date, as a date and
\* time followed by two letters Z is not.
DateGetTime(text) == IF text.zs <= 1 THEN Num(text.time) ELSE NaN

\* monitor.monitor_name || monitor.monitor_id, in lower case
LowerName(monitor) ==
    ToLowerCase(IF monitor.monitor_name # <<>> THEN monitor.monitor_name
                ELSE monitor.monitor_id)

\* customOrder.indexOf(id)
IndexOf(customOrder, id) ==
    IF \E k \in 1..Len(customOrder) : customOrder[k] = id
    THEN (CHOOSE k \in 1..Len(customOrder) :
             customOrder[k] = id /\ \A j \in 1..(k - 1) : customOrder[j] # id) - 1
    ELSE -1

\* levelOrder[level] ?? 4
LevelOrder(level) ==
    CASE level = "critical" -> 0
      [] level = "high" -> 1
      [] level = "medium" -> 2
      [] level = "low" -> 3
      [] OTHER -> 4

----------------------------------------------------------------------------
(* Sorting: the comparators of the monitors list *)

\* A custom strategy that forgets the custom order.
ListMonitorsCustomNameOnly(customOrder, a, b) ==
    Num(LocaleCompare(LowerName(a), LowerName(b)))

\* case "custom"
ListMonitorsCustom(customOrder, a, b) ==
    LET indexA == IndexOf(customOrder, a.monitor_id)
        indexB == IndexOf(customOrder, b.monitor_id)
    IN  IF indexA # -1 /\ indexB # -1 THEN Num(indexA - indexB)
        ELSE IF indexA # -1 THEN Num(-1)
        ELSE IF indexB # -1 THEN Num(1)
        ELSE Num(LocaleCompare(LowerName(a), LowerName(b)))

\* A name strategy that never answers 0: equal names count as "a first".
ListMonitorsNameNeverEqual(a, b) ==
    IF LocaleCompare(LowerName(a), LowerName(b)) > 0 THEN Num(1) ELSE Num(-1)

\* case "name"
ListMonitorsName(a, b) == Num(LocaleCompare(LowerName(a), LowerName(b)))

\* A value strategy that reads a missing value as Infinity.
ListMonitorsValueNullFirst(a, b) ==
    LET valA == IF a.latest_value # NULL THEN a.latest_value ELSE POS_INFINITY
        valB == IF b.latest_value # NULL THEN b.latest_value ELSE POS_INFINITY
    IN  JsSub(valB, valA)

\* case "value"
ListMonitorsValue(a, b) ==
    LET valA == IF a.latest_value # NULL THEN a.latest_value ELSE NEG_INFINITY
        valB == IF b.latest_value # NULL THEN b.latest_value ELSE NEG_INFINITY
    IN  JsSub(valB, valA)

\* case "lastUpdated"
ListMonitorsLastUpdated(a, b) ==
    LET timeA == DateGetTime(AppendZ(a.latest_timestamp))
        timeB == DateGetTime(AppendZ(b.latest_timestamp))
    IN  JsSub(timeB, timeA)

\* An alertStatus strategy that puts the breached monitors last.
ListMonitorsAlertStatusBreachedLast(a, b) ==
    LET breachedA == ListMonitorsIsBreached(a)
        breachedB == ListMonitorsIsBreached(b)
    IN  IF breachedA = breachedB
        THEN Num(LocaleCompare(LowerName(a), LowerName(b)))
        ELSE IF breachedA THEN Num(1) ELSE Num(-1)

\* case "alertStatus"
ListMonitorsAlertStatus(a, b) ==
    LET breachedA == ListMonitorsIsBreached(a)
        breachedB == ListMonitorsIsBreached(b)
    IN  IF breachedA = breachedB
        THEN Num(LocaleCompare(LowerName(a), LowerName(b)))
        ELSE IF breachedA THEN Num(-1) ELSE Num(1)

ListMonitorsSortBy == {"name", "value", "lastUpdated", "alertStatus", "custom"}

\* The comparator of sortedMonitors
ListMonitorsCompare(sortBy, customOrder, a, b) ==
    CASE sortBy = "custom" -> ListMonitorsCustom(customOrder, a, b)
      [] sortBy = "name" -> ListMonitorsName(a, b)
      [] sortBy = "value" -> ListMonitorsValue(a, b)
      [] sortBy = "lastUpdated" -> ListMonitorsLastUpdated(a, b)
      [] sortBy = "alertStatus" -> ListMonitorsAlertStatus(a, b)
      [] OTHER -> Num(0)

----------------------------------------------------------------------------
(* Sorting: the comparators of the alerts view and of the menu bar *)

\* A custom strategy that orders the unlisted items by name alone.
ViewAlertsCustomNameOnly(customOrder, a, b) ==
    LET indexA == IndexOf(customOrder, a.monitor.monitor_id)
        indexB == IndexOf(customOrder, b.monitor.monitor_id)
    IN  IF indexA # -1 /\ indexB # -1 THEN Num(indexA - indexB)
        ELSE IF indexA # -1 THEN Num(-1)
        ELSE IF indexB # -1 THEN Num(1)
        ELSE Num(LocaleCompare(LowerName(a.monitor), LowerName(b.monitor)))

\* case "custom"
ViewAlertsCustom(customOrder, a, b) ==
    LET indexA == IndexOf(customOrder, a.monitor.monitor_id)
        indexB == IndexOf(customOrder, b.monitor.monitor_id)
    IN  IF indexA # -1 /\ indexB # -1 THEN Num(indexA - indexB)
        ELSE IF indexA # -1 THEN Num(-1)
        ELSE IF indexB # -1 THEN Num(1)
        ELSE IF a.isActive # b.isActive THEN (IF a.isActive THEN Num(-1) ELSE Num(1))
        ELSE Num(LocaleCompare(LowerName(a.monitor), LowerName(b.monitor)))

\* A status strategy that compares the levels first.
ViewAlertsStatusLevelFirst(a, b) ==
    LET aLevel == LevelOrder(a.config.alert_level)
        bLevel == LevelOrder(b.config.alert_level)
    IN  IF aLevel # bLevel THEN Num(aLevel - bLevel)
        ELSE IF a.isActive # b.isActive THEN (IF a.isActive THEN Num(-1) ELSE Num(1))
        ELSE Num(0)

\* case "status"
ViewAlertsStatus(a, b) ==
    IF a.isActive # b.isActive THEN (IF a.isActive THEN Num(-1) ELSE Num(1))
    ELSE Num(LevelOrder(a.config.alert_level) - LevelOrder(b.config.alert_level))

\* case "name"
ViewAlertsName(a, b) == Num(LocaleCompare(LowerName(a.monitor), LowerName(b.monitor)))

\* case "value"
ViewAlertsValue(a, b) ==
    LET valA == IF a.monitor.latest_value # NULL THEN a.monitor.latest_value
                ELSE NEG_INFINITY
        valB == IF b.monitor.latest_value # NULL THEN b.monitor.latest_value
                ELSE NEG_INFINITY
    IN  JsSub(valB, valA)

\* A level strategy without its secondary sort by status.
ViewAlertsLevelOnly(a, b) ==
    Num(LevelOrder(a.config.alert_level) - LevelOrder(b.config.alert_level))

\* case "level"
ViewAlertsLevel(a, b) ==
    LET aLevel == LevelOrder(a.config.alert_level)
        bLevel == LevelOrder(b.config.alert_level)
    IN  IF aLevel # bLevel THEN Num(aLevel - bLevel)
        ELSE IF a.isActive = b.isActive THEN Num(0)
        ELSE IF a.isActive THEN Num(-1) ELSE Num(1)

ViewAlertsSortBy == {"status", "name", "value", "level", "custom"}

\* The comparator of sortedAlertItems
ViewAlertsCompare(sortBy, customOrder, a, b) ==
    CASE sortBy = "custom" -> ViewAlertsCustom(customOrder, a, b)
      [] sortBy = "status" -> ViewAlertsStatus(a, b)
      [] sortBy = "name" -> ViewAlertsName(a, b)
      [] sortBy = "value" -> ViewAlertsValue(a, b)
      [] sortBy = "level" -> ViewAlertsLevel(a, b)
      [] OTHER -> Num(0)

\* The comparators of sortByCustomOrder: by name when the custom order is
\* empty, else by the custom order and then by name
MenuBarCompare(customOrder, a, b) ==
    IF Len(customOrder) = 0 THEN Num(LocaleCompare(LowerName(a), LowerName(b)))
    ELSE LET indexA == IndexOf(customOrder, a.monitor_id)
             indexB == IndexOf(customOrder, b.monitor_id)
         IN  IF indexA # -1 /\ indexB # -1 THEN Num(indexA - indexB)
             ELSE IF indexA # -1 THEN Num(-1)
             ELSE IF indexB # -1 THEN Num(1)
             ELSE Num(LocaleCompare(LowerName(a), LowerName(b)))

----------------------------------------------------------------------------
(* Sorting: Array.prototype.sort and the sort of a view *)

SortViews == {"list", "alerts", "menubar"}

\* The comparator a view hands to sort
Comparefn(call, a, b) ==
    CASE call.view = "list" -> ListMonitorsCompare(call.sortBy, call.customOrder, a, b)
      [] call.view = "alerts" -> ViewAlertsCompare(call.sortBy, call.customOrder, a, b)
      [] OTHER -> MenuBarCompare(call.customOrder, a, b)

\* What sort makes of the comparator's answer: its sign, and 0 for NaN
SortCompare(call, a, b) ==
    LET v == Comparefn(call, a, b)
    IN  IF v = NaN THEN 0
        ELSE IF IsInfinite(v) THEN v.inf
        ELSE IF v.num < 0 THEN -1
        ELSE IF v.num > 0 \/ v.frac # <<>> THEN 1
        ELSE 0

\* The place of pivot among the sorted items, by binary search: after the
\* items the comparator does not put it before
RECURSIVE InsertionPoint(_, _, _, _, _)
InsertionPoint(call, sorted, pivot, left, right) ==
    IF left >= right THEN left
    ELSE LET mid == left + ((right - left) \div 2)
         IN  IF SortCompare(call, pivot, sorted[mid + 1]) < 0
             THEN InsertionPoint(call, sorted, pivot, left, mid)
             ELSE InsertionPoint(call, sorted, pivot, mid + 1, right)

\* [...items].sort(comparefn): the engine sorts a short array by binary
\* insertion, which is stable
RECURSIVE ArraySort(_, _)
ArraySort(call, items) ==
    IF items = <<>> THEN <<>>
    ELSE LET n == Len(items)
             sorted == ArraySort(call, SubSeq(items, 1, n - 1))
             at == InsertionPoint(call, sorted, items[n], 0, n - 1)
         IN  SubSeq(sorted, 1, at) \o <<items[n]>> \o SubSeq(sorted, at + 1, n - 1)

\* The list a view sorts
SortInput(call) ==
    CASE call.view = "alerts" -> ViewAlertsItems
      [] OTHER -> IF HasMonitors THEN monitors.data ELSE <<>>

\* The strategies of a view; the menu bar has only its custom order.
SortStrategies(view) ==
    CASE view = "list" -> ListMonitorsSortBy
      [] view = "alerts" -> ViewAlertsSortBy
      [] OTHER -> {"custom"}

\* Both promises of the view have resolved, and the view is about to sort.
InitSort ==
    /\ apiRules \in SortRuleLists
    /\ apiMonitors \in SortMonitorLists
    /\ sessionCookie = COOKIE
    /\ session = IdleSession
    /\ menuBar = IdleMenuBar
    /\ store = IdleStore
    /\ writeCall = IdleWrite
    /\ LET return == GetMonitorsReturn(TRUE, apiMonitors)
       IN  monitors = [ok |-> TRUE, apiMonitors |-> apiMonitors,
                       threw |-> return.threw, data |-> return.data]
    /\ LET return == GetAlertConfigsReturn(TRUE, TRUE, apiRules, apiMonitors)
       IN  alerts = [rulesOk |-> TRUE, monitorsOk |-> TRUE, alertRules |-> apiRules,
                     monitors |-> apiMonitors, threw |-> return.threw,
                     data |-> return.data]
    /\ evalCall = IdleEval
    /\ parseCall = IdleParse
    /\ formCall = IdleForm
    /\ \E view \in SortViews :
       \E sortBy \in SortStrategies(view) :
       \E customOrder \in IF sortBy = "custom" THEN CustomOrders ELSE {<<>>} :
          sortCall = [view |-> view, sortBy |-> sortBy, customOrder |-> customOrder,
                      returned |-> FALSE, result |-> <<>>]

\* The render of a view computes its sorted list.
SortView ==
    /\ sortCall.view \in SortViews
    /\ ~sortCall.returned
    /\ sortCall' = [sortCall EXCEPT !.returned = TRUE,
                                    !.result = ArraySort(sortCall, SortInput(sortCall))]
    /\ UNCHANGED <<apiRules, apiMonitors, sessionCookie, monitors, alerts, evalCall,
                   parseCall, formCall,
                   session, menuBar, store, writeCall>>

NextSort == SortView

SpecSort == InitSort /\ [][NextSort]_vars

----------------------------------------------------------------------------
(* The forms: create constant, edit constant, edit alert *)

\* text.trim()
RECURSIVE TrimEnd(_)
TrimEnd(s) ==
    IF s # <<>> /\ IsSpace(s[Len(s)]) THEN TrimEnd(SubSeq(s, 1, Len(s) - 1)) ELSE s

Trim(s) == TrimEnd(SubSeq(s, SkipSpaces(s, 1), Len(s)))

\* -x
Negate(x) ==
    IF x.frac = <<>> THEN Num(0 - x.num)
    ELSE [num |-> 0 - x.num - 1,
          frac |-> [k \in 1..Len(x.frac) |->
                       IF k = Len(x.frac) THEN 10 - x.frac[k] ELSE 9 - x.frac[k]]]

\* parseFloat of a field's text: leading white space is skipped, a sign is
\* read, and then the longest prefix that writes a decimal number; what
\* follows that prefix is ignored.  NaN without such a prefix.
FormParseFloat(text) ==
    LET start == SkipSpaces(text, 1)
        signed == start <= Len(text) /\ text[start] \in {"-", "+"}
        digits == SubSeq(text, IF signed THEN start + 1 ELSE start, Len(text))
        number == ParseFloat(digits)
    IN  IF number = NaN THEN NaN
        ELSE IF signed /\ text[start] = "-" THEN Negate(number)
        ELSE number

FormNames == {"createConstant", "editConstant", "editAlert"}

\* What the user may have typed in a numeric field
FormNumberTexts ==
    {<<>>, <<" ">>, <<"a", "b", "c">>, <<"1", "2">>, <<"1", "2", "a", "b", "c">>,
     <<" ", "7">>, <<"-", "5">>, <<"1", ".", "5">>}

\* What the user may have typed in the name field
FormNameTexts == {<<>>, <<" ">>, <<"B", "t", "c">>, <<" ", "B", "t", "c", " ">>}

MaxSubmits == 2

\* The body of handleSubmit of the two constant forms up to its api call:
\* the error thrown, or the arguments of the call
ConstantFormArguments(call) ==
    LET numValue == FormParseFloat(call.value)
    IN  IF numValue = NaN THEN [error |-> "Value must be a valid number"]
        ELSE IF Trim(call.name) = <<>> THEN [error |-> "Name is required"]
        ELSE [name |-> Trim(call.name), value |-> numValue]

\* The body of handleSubmit of the alert form up to its api call
EditAlertFormArguments(call) ==
    LET upper == IF call.upperThreshold # <<>> THEN FormParseFloat(call.upperThreshold)
                 ELSE UNDEF
        lower == IF call.lowerThreshold # <<>> THEN FormParseFloat(call.lowerThreshold)
                 ELSE UNDEF
    IN  IF upper # UNDEF /\ upper = NaN
        THEN [error |-> "Upper threshold must be a valid number"]
        ELSE IF lower # UNDEF /\ lower = NaN
        THEN [error |-> "Lower threshold must be a valid number"]
        ELSE [upperThreshold |-> upper, lowerThreshold |-> lower]

FormArguments(call) ==
    IF call.form = "editAlert" THEN EditAlertFormArguments(call)
    ELSE ConstantFormArguments(call)

Rejected(arguments) == "error" \in DOMAIN arguments

\* A form is open with what the user typed in its fields.
InitForm ==
    /\ apiRules = <<>>
    /\ apiMonitors = <<>>
    /\ sessionCookie \in {NULL, COOKIE}
    /\ session = IdleSession
    /\ menuBar = IdleMenuBar
    /\ store = IdleStore
    /\ writeCall = IdleWrite
    /\ monitors = UNDEF
    /\ alerts = UNDEF
    /\ evalCall = IdleEval
    /\ parseCall = IdleParse
    /\ sortCall = IdleSort
    /\ \E form \in FormNames :
       \E name \in IF form = "editAlert" THEN {<<>>} ELSE FormNameTexts :
       \E value \in IF form = "editAlert" THEN {<<>>} ELSE FormNumberTexts :
       \E upper \in IF form = "editAlert" THEN FormNumberTexts ELSE {<<>>} :
       \E lower \in IF form = "editAlert" THEN FormNumberTexts ELSE {<<>>} :
          formCall = [form |-> form, name |-> name, value |-> value,
                      upperThreshold |-> upper, lowerThreshold |-> lower,
                      submits |-> 0, apiCalls |-> 0, sent |-> NULL,
                      open |-> TRUE, toast |-> "none"]

\* handleSubmit: the toast, the validation, the api call when the fields pass
\* it, and then either the success toast and pop() or, for any error thrown,
\* the failure toast.  ok tells whether the api call's request succeeded.
HandleSubmit ==
    /\ formCall.open
    /\ formCall.submits < MaxSubmits
    /\ \E ok \in BOOLEAN, setCookie \in BOOLEAN :
          LET arguments == FormArguments(formCall)
          IN  IF Rejected(arguments)
              THEN /\ formCall' = [formCall EXCEPT !.submits = @ + 1,
                                                   !.toast = "failure"]
                   /\ UNCHANGED sessionCookie
              ELSE /\ formCall' = [formCall EXCEPT !.submits = @ + 1,
                                                   !.apiCalls = @ + 1,
                                                   !.sent = arguments,
                                                   !.open = ~ok,
                                                   !.toast = IF ok THEN "success"
                                                             ELSE "failure"]
                   /\ sessionCookie' = StoreCookie(sessionCookie, setCookie)
    /\ UNCHANGED <<apiRules, apiMonitors, monitors, alerts, evalCall, parseCall,
                   sortCall,
                   session, menuBar, store, writeCall>>

NextForm == HandleSubmit

SpecForm == InitForm /\ [][NextForm]_vars

----------------------------------------------------------------------------
(* Inputs of the evaluator *)

EvalValues == {NULL} \cup {Num(n) : n \in {-5, -1, 0, 1, 5, 100, 150}}

EvalThresholds == {NULL} \cup {Num(n) : n \in {-5, 0, 5, 100}}

InitEval ==
    /\ apiRules = <<>>
    /\ apiMonitors = <<>>
    /\ sessionCookie = NULL
    /\ session = IdleSession
    /\ menuBar = IdleMenuBar
    /\ store = IdleStore
    /\ writeCall = IdleWrite
    /\ monitors = UNDEF
    /\ alerts = UNDEF
    /\ parseCall = IdleParse
    /\ sortCall = IdleSort
    /\ formCall = IdleForm
    /\ evalCall \in [value : EvalValues, upperThreshold : EvalThresholds,
                     lowerThreshold : EvalThresholds, returned : {FALSE},
                     result : {FALSE}]

Evaluate ==
    /\ ~evalCall.returned
    /\ evalCall' = [evalCall EXCEPT !.returned = TRUE, !.result =
           IsValueOutOfRange(evalCall.value, evalCall.upperThreshold,
                             evalCall.lowerThreshold)]
    /\ UNCHANGED <<apiRules, apiMonitors, sessionCookie, monitors, alerts, parseCall,
                   sortCall, formCall,
                   session, menuBar, store, writeCall>>

NextEval == Evaluate

SpecEval == InitEval /\ [][NextEval]_vars

----------------------------------------------------------------------------
(* MatsuAPI.request and login, one step per await *)

\* response.headers.get("set-cookie"): NULL when the response has no such
\* header, and when there is no response
SetCookieHeaders == {NULL, COOKIE}

OperationNames == {"getMonitors", "getAlertConfigs", "updateAlertConfig"}

\* The calls of request an operation makes before its first await, in order:
\* getAlertConfigs starts its two inside one Promise.all
OperationRequests(operation) ==
    IF operation = "getMonitors" THEN <<"GET /api/monitors">>
    ELSE IF operation = "getAlertConfigs"
         THEN <<"GET /api/alert-rules", "GET /api/monitors">>
    ELSE <<"POST /api/alert-rules">>

MaxOperations == 2

\* A request that logs in whatever cookie the client holds.
NeedsLoginAlways(cookie) == TRUE

\* if (!this.sessionCookie)
NeedsLogin(cookie) == cookie = NULL

\* if (setCookie) { this.sessionCookie = setCookie; }
StoreSessionCookie(cookie, setCookie) == IF setCookie # NULL THEN setCookie ELSE cookie

\* const response = await fetch(url, ...): the call sends its request, with
\* the cookie the client holds now in the Cookie header if it holds one
SendRequest(call, cookie) ==
    [call EXCEPT !.pc = "fetch", !.fetches = @ + 1, !.sentCookie = cookie]

\* A call of request up to its first await: it calls login and waits for it
\* when the client holds no cookie, and sends its request at once otherwise.
StartRequest(operation, name, endpoint, cookie) ==
    LET call == [operation |-> operation, name |-> name, endpoint |-> endpoint,
                 cookieAtStart |-> cookie, pc |-> "start", logins |-> 0,
                 fetches |-> 0, sentCookie |-> NULL]
    IN  IF NeedsLogin(cookie) THEN [call EXCEPT !.pc = "login", !.logins = @ + 1]
        ELSE SendRequest(call, cookie)

\* A request that sends itself once more after a response that is not ok.
AfterResponseRetry(call, ok) ==
    IF ok THEN [call EXCEPT !.pc = "returned"]
    ELSE IF call.fetches < 2 THEN [call EXCEPT !.fetches = @ + 1]
    ELSE [call EXCEPT !.pc = "threw"]

\* The call after the response to its request: it returns the body of an ok
\* response and throws otherwise
AfterResponse(call, ok) ==
    [call EXCEPT !.pc = IF ok THEN "returned" ELSE "threw"]

InitRequest ==
    /\ apiRules = <<>>
    /\ apiMonitors = <<>>
    /\ sessionCookie = NULL
    /\ session = IdleSession
    /\ menuBar = IdleMenuBar
    /\ store = IdleStore
    /\ writeCall = IdleWrite
    /\ monitors = UNDEF
    /\ alerts = UNDEF
    /\ evalCall = IdleEval
    /\ parseCall = IdleParse
    /\ sortCall = IdleSort
    /\ formCall = IdleForm

\* A view's promise runs or a form calls a write operation: the operation
\* starts its calls of request, each up to its first await.
StartOperation ==
    /\ session.operations < MaxOperations
    /\ \E name \in OperationNames :
          LET n == session.operations + 1
              requests == OperationRequests(name)
              started == [k \in 1..Len(requests) |->
                             StartRequest(n, name, requests[k], sessionCookie)]
          IN  session' = [calls |-> session.calls \o started, operations |-> n]
    /\ UNCHANGED <<apiRules, apiMonitors, sessionCookie, monitors, alerts, evalCall,
                   parseCall, sortCall, formCall, menuBar, store, writeCall>>

\* The fetch of a call's login settles: login stores the set-cookie header
\* of its response, request ignores what login returns and sends its request.
LoginResponse ==
    \E i \in 1..Len(session.calls), setCookie \in SetCookieHeaders :
        /\ session.calls[i].pc = "login"
        /\ sessionCookie' = StoreSessionCookie(sessionCookie, setCookie)
        /\ session' = [session EXCEPT !.calls[i] = SendRequest(@, sessionCookie')]
        /\ UNCHANGED <<apiRules, apiMonitors, monitors, alerts, evalCall, parseCall,
                       sortCall, formCall, menuBar, store, writeCall>>

\* The fetch of a call's request settles.  ok is false for a response that
\* is not ok and for a transport error, which has no set-cookie header.
Response ==
    \E i \in 1..Len(session.calls), ok \in BOOLEAN, setCookie \in SetCookieHeaders :
        /\ session.calls[i].pc = "fetch"
        /\ sessionCookie' = StoreSessionCookie(sessionCookie, setCookie)
        /\ session' = [session EXCEPT !.calls[i] = AfterResponse(@, ok)]
        /\ UNCHANGED <<apiRules, apiMonitors, monitors, alerts, evalCall, parseCall,
                       sortCall, formCall, menuBar, store, writeCall>>

NextRequest == StartOperation \/ LoginResponse \/ Response

SpecRequest == InitRequest /\ [][NextRequest]_vars

----------------------------------------------------------------------------
(* The menu bar command: pinned monitors and their rotation *)

\* text.split(",")
RECURSIVE SplitAtCommas(_)
SplitAtCommas(text) ==
    IF \E k \in 1..Len(text) : text[k] = ","
    THEN LET k == CHOOSE c \in 1..Len(text) :
                     text[c] = "," /\ \A b \in 1..(c - 1) : text[b] # ","
         IN  <<SubSeq(text, 1, k - 1)>> \o SplitAtCommas(SubSeq(text, k + 1, Len(text)))
    ELSE <<text>>

\* preferences.menuBarMonitors?.split(",").map((id) => id.trim())
\*    .filter((id) => id.length > 0)
MonitorIdsOf(menuBarMonitors) ==
    LET parts == SplitAtCommas(menuBarMonitors)
    IN  SelectSeq([k \in 1..Len(parts) |-> Trim(parts[k])], LAMBDA id : Len(id) > 0)

MaxEntries == 3

\* The texts of the preference menuBarMonitors: what the user writes between
\* the commas is an id, an id after a space, or nothing
PreferenceTexts ==
    LET PreferenceEntries == {M1, <<" ">> \o M2, M3, <<>>}
        RECURSIVE JoinWithCommas(_)
        JoinWithCommas(entries) ==
            IF entries = <<>> THEN <<>>
            ELSE IF Len(entries) = 1 THEN entries[1]
            ELSE entries[1] \o <<",">> \o JoinWithCommas(Tail(entries))
    IN  {JoinWithCommas(entries) :
            entries \in UNION {[1..n -> PreferenceEntries] : n \in 0..MaxEntries}}

\* The backend's monitors while the menu bar runs: any of the three, each
\* with a value, in the order of their creation
MenuBarMonitorLists ==
    {list \in MonitorLists :
        /\ \A k \in 1..Len(list) : list[k].value # NULL
        /\ \A j \in 1..Len(list), k \in 1..Len(list) :
              j < k => list[j].updated_at.time < list[k].updated_at.time}

\* monitorIds.map((id) => monitors?.find((m) => m.monitor_id === id))
\*    .filter((m) => m !== undefined)
RECURSIVE PinnedMonitors(_, _)
PinnedMonitors(monitorIds, data) ==
    IF monitorIds = <<>> THEN <<>>
    ELSE LET found == {k \in 1..Len(data) : data[k].monitor_id = Head(monitorIds)}
             rest == PinnedMonitors(Tail(monitorIds), data)
         IN  IF found = {} THEN rest
             ELSE <<data[CHOOSE k \in found : \A j \in found : k <= j]>> \o rest

\* The pinned monitors of the render; the data of the getMonitors promise is
\* undefined until it first resolves
MenuBarPinned ==
    PinnedMonitors(menuBar.monitorIds, IF monitors = UNDEF THEN <<>> ELSE monitors.data)

\* The length the rotation effect arms its interval with: none, written 0,
\* when pinnedMonitors.length <= 1
IntervalLength(pinned) == IF Len(pinned) <= 1 THEN 0 ELSE Len(pinned)

\* A rotation that steps backwards.
NextIndexBackwards(prev, length) == (prev + length - 1) % length

\* (prev) => (prev + 1) % pinnedMonitors.length
NextIndex(prev, length) == (prev + 1) % length

\* A title that indexes the pinned list without the modulo.
PrimaryMonitorNoModulo(pinned, currentIndex) ==
    IF Len(pinned) > 0 /\ currentIndex + 1 <= Len(pinned)
    THEN pinned[currentIndex + 1] ELSE UNDEF

\* pinnedMonitors.length > 0 ? pinnedMonitors[currentIndex % pinnedMonitors.length]
\*    : undefined
PrimaryMonitor(pinned, currentIndex) ==
    IF Len(pinned) > 0 THEN pinned[(currentIndex % Len(pinned)) + 1] ELSE UNDEF

InitMenuBar ==
    /\ apiRules = <<>>
    /\ apiMonitors \in MenuBarMonitorLists
    /\ sessionCookie = NULL
    /\ session = IdleSession
    /\ store = IdleStore
    /\ writeCall = IdleWrite
    /\ monitors = UNDEF
    /\ alerts = UNDEF
    /\ evalCall = IdleEval
    /\ parseCall = IdleParse
    /\ sortCall = IdleSort
    /\ formCall = IdleForm
    /\ \E text \in PreferenceTexts :
          menuBar = [running |-> TRUE, menuBarMonitors |-> text,
                     monitorIds |-> MonitorIdsOf(text), currentIndex |-> 0,
                     interval |-> 0]

\* The getMonitors promise of the menu bar resolves, on mount or on a
\* refresh, and the command renders: the backend has the monitors it has
\* now, a failed request gives the empty list, and the rotation effect runs
\* again when the number of pinned monitors changed.
MenuBarRefresh ==
    /\ menuBar.running
    /\ \E ok \in BOOLEAN, setCookie \in BOOLEAN, now \in MenuBarMonitorLists :
          /\ apiMonitors' = now
          /\ sessionCookie' = StoreCookie(sessionCookie, setCookie)
          /\ LET fetched == IF ok THEN now ELSE <<>>
                 return == GetMonitorsReturn(ok, fetched)
             IN  /\ monitors' = [ok |-> ok, apiMonitors |-> fetched,
                                 threw |-> return.threw, data |-> return.data]
                 /\ menuBar' = [menuBar EXCEPT !.interval =
                       IntervalLength(PinnedMonitors(menuBar.monitorIds, return.data))]
    /\ UNCHANGED <<apiRules, alerts, evalCall, parseCall, sortCall, formCall,
                   session, store, writeCall>>

\* The interval of the rotation effect fires.
MenuBarTick ==
    /\ menuBar.running
    /\ menuBar.interval > 0
    /\ menuBar' = [menuBar EXCEPT !.currentIndex = NextIndex(@, menuBar.interval)]
    /\ UNCHANGED <<apiRules, apiMonitors, sessionCookie, monitors, alerts, evalCall,
                   parseCall, sortCall, formCall, session, store, writeCall>>

NextMenuBar == MenuBarRefresh \/ MenuBarTick

SpecMenuBar == InitMenuBar /\ [][NextMenuBar]_vars

\* setInterval fires for as long as its interval is armed.
SpecMenuBarFair == SpecMenuBar /\ WF_vars(MenuBarTick)

----------------------------------------------------------------------------
(* The local-aliases module over LocalStorage *)

\* {}
EmptyObject == <<>>

\* object[key] = value
ObjectSet(object, key, value) ==
    [k \in DOMAIN object \cup {key} |-> IF k = key THEN value ELSE object[k]]

\* delete object[key]
ObjectDelete(object, key) == [k \in DOMAIN object \ {key} |-> object[k]]

\* The monitor ids the user annotates
StoreIds == <<M1, M2>>

\* JSON.stringify(object): the text lists the keys with their values
JsonStringify(object) ==
    LET present == SelectSeq(StoreIds, LAMBDA id : id \in DOMAIN object)
    IN  [text |-> [k \in 1..Len(present) |->
                      [key |-> present[k], value |-> object[present[k]]]]]

\* JSON.parse(text)
JsonParse(json) ==
    [key \in {json.text[k].key : k \in 1..Len(json.text)} |->
        json.text[CHOOSE k \in 1..Len(json.text) : json.text[k].key = key].value]

\* getAllAliases, getAllTags: the object of the stored text, {} when the key
\* has no item
GetAll(item) == IF item = NULL THEN EmptyObject ELSE JsonParse(item)

\* A setMonitorAlias that stores an object with the one alias.
SetMonitorAliasAlone(aliases, monitorId, alias) ==
    IF Trim(alias) # <<>> THEN ObjectSet(EmptyObject, monitorId, Trim(alias))
    ELSE EmptyObject

\* setMonitorAlias, between its read and its write
SetMonitorAlias(aliases, monitorId, alias) ==
    IF Trim(alias) # <<>> THEN ObjectSet(aliases, monitorId, Trim(alias))
    ELSE ObjectDelete(aliases, monitorId)

\* deleteMonitorAlias, deleteMonitorTags, between the read and the write
DeleteMonitorEntry(object, monitorId) == ObjectDelete(object, monitorId)

\* A cleaning that trims the tags and keeps the empty ones.
CleanTagsNoFilter(tags) == [k \in 1..Len(tags) |-> Trim(tags[k])]

\* tags.map(t => t.trim()).filter(t => t.length > 0)
CleanTags(tags) ==
    SelectSeq([k \in 1..Len(tags) |-> Trim(tags[k])], LAMBDA t : Len(t) > 0)

\* setMonitorTags, between its read and its write
SetMonitorTags(allTags, monitorId, tags) ==
    LET cleanTags == CleanTags(tags)
    IN  IF Len(cleanTags) > 0 THEN ObjectSet(allTags, monitorId, cleanTags)
        ELSE ObjectDelete(allTags, monitorId)

\* The aliases a user enters: nothing, spaces, a name, a name between spaces
AliasTexts == {<<>>, <<" ">>, <<"a">>, <<" ", "b", " ">>}

\* The tag lists a caller passes: none, empty tags only, a tag between spaces
\* next to an empty tag, one tag
TagLists == {<<>>, <<<<>>, <<" ">>>>, <<<<" ", "x", " ">>, <<>>>>, <<<<"y">>>>}

\* The calls of the module's four writing functions
StoreCalls ==
    {[fn |-> "setMonitorAlias", monitorId |-> id, alias |-> alias, tags |-> <<>>]
        : id \in {M1, M2}, alias \in AliasTexts}
    \cup {[fn |-> "setMonitorTags", monitorId |-> id, alias |-> <<>>, tags |-> tags]
             : id \in {M1, M2}, tags \in TagLists}
    \cup {[fn |-> fn, monitorId |-> id, alias |-> <<>>, tags |-> <<>>]
             : fn \in {"deleteMonitorAlias", "deleteMonitorTags"}, id \in {M1, M2}}

\* ALIASES_KEY or TAGS_KEY
OnAliases(call) == call.fn \in {"setMonitorAlias", "deleteMonitorAlias"}

\* The object a call writes, given the object it read
Modified(call, object) ==
    IF call.fn = "setMonitorAlias"
    THEN SetMonitorAlias(object, call.monitorId, call.alias)
    ELSE IF call.fn = "setMonitorTags"
         THEN SetMonitorTags(object, call.monitorId, call.tags)
    ELSE DeleteMonitorEntry(object, call.monitorId)

MaxCalls == 2

InitStore ==
    /\ apiRules = <<>>
    /\ apiMonitors = <<>>
    /\ sessionCookie = NULL
    /\ session = IdleSession
    /\ menuBar = IdleMenuBar
    /\ writeCall = IdleWrite
    /\ monitors = UNDEF
    /\ alerts = UNDEF
    /\ evalCall = IdleEval
    /\ parseCall = IdleParse
    /\ sortCall = IdleSort
    /\ formCall = IdleForm
    /\ store = [running |-> TRUE, aliases |-> NULL, tags |-> NULL, calls |-> <<>>,
                clock |-> 0]

\* A call of one of the four functions starts and its LocalStorage.getItem
\* answers: the call has the object of the stored text, changes it and calls
\* LocalStorage.setItem with the text of the changed object.  The clock
\* numbers the operations of the storage.
StoreRead ==
    /\ store.running
    /\ Len(store.calls) < MaxCalls
    /\ \E call \in StoreCalls :
          LET object == GetAll(IF OnAliases(call) THEN store.aliases ELSE store.tags)
              started == [fn |-> call.fn, monitorId |-> call.monitorId,
                          alias |-> call.alias, tags |-> call.tags, pc |-> "write",
                          before |-> object,
                          item |-> JsonStringify(Modified(call, object)),
                          readAt |-> store.clock + 1, wroteAt |-> 0]
          IN  store' = [store EXCEPT !.calls = Append(@, started),
                                     !.clock = @ + 1]
    /\ UNCHANGED <<apiRules, apiMonitors, sessionCookie, monitors, alerts, evalCall,
                   parseCall, sortCall, formCall, session, menuBar, writeCall>>

\* The LocalStorage.setItem of a call takes effect and the call returns.
StoreWrite ==
    /\ store.running
    /\ \E i \in 1..Len(store.calls) :
          /\ store.calls[i].pc = "write"
          /\ LET done == [store.calls[i] EXCEPT !.pc = "done",
                                                !.wroteAt = store.clock + 1]
             IN  store' = [store EXCEPT
                    !.aliases = IF OnAliases(done) THEN done.item ELSE @,
                    !.tags = IF OnAliases(done) THEN @ ELSE done.item,
                    !.calls[i] = done,
                    !.clock = @ + 1]
    /\ UNCHANGED <<apiRules, apiMonitors, sessionCookie, monitors, alerts, evalCall,
                   parseCall, sortCall, formCall, session, menuBar, writeCall>>

NextStore == StoreRead \/ StoreWrite

SpecStore == InitStore /\ [][NextStore]_vars

----------------------------------------------------------------------------
(* The alert config actions of the views and the refresh after them *)

\* The body updateAlertConfig posts, stored by the backend as sent and
\* stamped with the time of its creation
PostedRule(monitorId, upperThreshold, lowerThreshold, alertLevel, stamp) ==
    [name |-> <<"A", "l", "e", "r", "t", " ", "f", "o", "r", " ">> \o monitorId,
     condition |-> UpdateAlertConfigCondition(upperThreshold, lowerThreshold),
     level |-> alertLevel, enabled |-> TRUE, cooldown_seconds |-> 300,
     created_at |-> stamp, updated_at |-> stamp]

\* upperThreshold || null
OrNull(threshold) == IF threshold = UNDEF \/ threshold = Num(0) THEN NULL ELSE threshold

\* The AlertConfig updateAlertConfig returns
UpdateAlertConfigReturn(monitorId, upperThreshold, lowerThreshold, rule) ==
    [monitor_id |-> monitorId,
     upper_threshold |-> OrNull(upperThreshold),
     lower_threshold |-> OrNull(lowerThreshold),
     alert_level |-> rule.level,
     created_at |-> rule.created_at,
     updated_at |-> rule.updated_at]

MaxWrites == 1

InitWrite ==
    /\ apiRules \in {rules \in RuleLists : Len(rules) <= 1}
    /\ apiMonitors \in MenuBarMonitorLists
    /\ sessionCookie = COOKIE
    /\ session = IdleSession
    /\ menuBar = IdleMenuBar
    /\ store = IdleStore
    /\ writeCall = IdleWrite
    /\ monitors = UNDEF
    /\ alerts = UNDEF
    /\ evalCall = IdleEval
    /\ parseCall = IdleParse
    /\ sortCall = IdleSort
    /\ formCall = IdleForm

\* The getAlertConfigs promise of the view runs: when the view opens and
\* when an action calls onUpdate.
RevalidateAlerts ==
    \E rulesOk \in BOOLEAN, monitorsOk \in BOOLEAN, setCookie \in BOOLEAN :
        /\ sessionCookie' = StoreCookie(sessionCookie, setCookie)
        /\ LET alertRules == IF rulesOk THEN apiRules ELSE <<>>
               fetched == IF monitorsOk THEN apiMonitors ELSE <<>>
               return == GetAlertConfigsReturn(rulesOk, monitorsOk, alertRules, fetched)
           IN  alerts' = [rulesOk |-> rulesOk, monitorsOk |-> monitorsOk,
                          alertRules |-> alertRules, monitors |-> fetched,
                          threw |-> return.threw, data |-> return.data]
        /\ writeCall' = [writeCall EXCEPT !.revalidated = (writeCall.action # "none")]
        /\ UNCHANGED <<apiRules, apiMonitors, monitors, evalCall, parseCall, sortCall,
                       formCall, session, menuBar, store>>

\* EditAlertForm calls api.updateAlertConfig for a monitor of the list.  ok
\* is false when the request fails; the backend then stores nothing and the
\* call throws.
UpdateAlertConfig ==
    /\ writeCall.writes < MaxWrites
    /\ \E m \in 1..Len(apiMonitors), upperThreshold \in WriteThresholds,
          lowerThreshold \in WriteThresholds, alertLevel \in {"high", "critical"},
          ok \in BOOLEAN, setCookie \in BOOLEAN :
          LET monitorId == apiMonitors[m].id
              rule == PostedRule(monitorId, upperThreshold, lowerThreshold,
                                 alertLevel, Len(apiRules) + 1)
          IN  /\ sessionCookie' = StoreCookie(sessionCookie, setCookie)
              /\ apiRules' = IF ok THEN Append(apiRules, rule) ELSE apiRules
              /\ writeCall' =
                    [action |-> "update", writes |-> writeCall.writes + 1,
                     revalidated |-> FALSE, monitorId |-> monitorId,
                     upperThreshold |-> upperThreshold,
                     lowerThreshold |-> lowerThreshold, alertLevel |-> alertLevel,
                     threw |-> ~ok, stamp |-> IF ok THEN rule.created_at ELSE 0,
                     returned |-> IF ok THEN UpdateAlertConfigReturn(monitorId,
                                                upperThreshold, lowerThreshold, rule)
                                  ELSE UNDEF,
                     toast |-> IF ok THEN "success" ELSE "failure"]
    /\ UNCHANGED <<apiMonitors, monitors, alerts, evalCall, parseCall, sortCall,
                   formCall, session, menuBar, store>>

\* The Delete Alert Config action of a monitor that has a config in the
\* view's data: api.deleteAlertConfig warns on the console, sends nothing and
\* returns, and the action shows its success toast and calls onUpdate.
DeleteAlertConfig ==
    /\ writeCall.writes < MaxWrites
    /\ HasAlerts
    /\ \E k \in 1..Len(alerts.data) :
          writeCall' = [action |-> "delete", writes |-> writeCall.writes + 1,
                        revalidated |-> FALSE,
                        monitorId |-> alerts.data[k].monitor_id,
                        upperThreshold |-> UNDEF, lowerThreshold |-> UNDEF,
                        alertLevel |-> "none", threw |-> FALSE, stamp |-> 0,
                        returned |-> UNDEF, toast |-> "success"]
    /\ UNCHANGED <<apiRules, apiMonitors, sessionCookie, monitors, alerts, evalCall,
                   parseCall, sortCall, formCall, session, menuBar, store>>

NextWrite == RevalidateAlerts \/ UpdateAlertConfig \/ DeleteAlertConfig

SpecWrite == InitWrite /\ [][NextWrite]_vars

----------------------------------------------------------------------------
(* Claims about parseAlertCondition *)

\* The first clause of cs that satisfies P: its index, 0 when there is none
FirstMonitorClause(cs) ==
    IF \E k \in 1..Len(cs) : IsMonitorClause(cs[k])
    THEN CHOOSE k \in 1..Len(cs) :
            IsMonitorClause(cs[k]) /\ \A j \in 1..(k - 1) : ~IsMonitorClause(cs[j])
    ELSE 0

IsComparison(c, op) == IsReferenceClause(c) /\ c.op = op

FirstComparison(cs, op) ==
    IF \E k \in 1..Len(cs) : IsComparison(cs[k], op)
    THEN CHOOSE k \in 1..Len(cs) :
            IsComparison(cs[k], op) /\ \A j \in 1..(k - 1) : ~IsComparison(cs[j], op)
    ELSE 0

\* C8: monitor_id is the identifier of the first monitor reference, or null;
\* upper_threshold is the number that follows the first '>' applied to a
\* monitor reference or to the word value, or null; lower_threshold likewise
\* for '<'.
C8_ParseYieldsIdAndNumbers ==
    parseCall.returned =>
        LET cs == parseCall.clauses
            m == FirstMonitorClause(cs)
            u == FirstComparison(cs, <<">">>)
            l == FirstComparison(cs, <<"<">>)
        IN  /\ parseCall.result.monitor_id =
                  (IF m = 0 THEN NULL ELSE cs[m].ref.monitor)
            /\ parseCall.result.upper_threshold =
                  (IF u = 0 THEN NULL ELSE cs[u].number)
            /\ parseCall.result.lower_threshold =
                  (IF l = 0 THEN NULL ELSE cs[l].number)

\* The two examples of the claim: "${monitor:m1} > 100" and "value < 5".
C8_Examples ==
    /\ ParseAlertCondition(MonitorRef(M1) \o <<" ", ">", " ", "1", "0", "0">>)
          = [upper_threshold |-> Num(100), lower_threshold |-> NULL, monitor_id |-> M1]
    /\ ParseAlertCondition(ValueWord \o <<" ", "<", " ", "5">>)
          = [upper_threshold |-> NULL, lower_threshold |-> Num(5), monitor_id |-> NULL]
    /\ ParseAlertCondition(FooBar)
          = [upper_threshold |-> NULL, lower_threshold |-> NULL, monitor_id |-> NULL]

\* The same statement for the clauses whose number is not negative.
C8_HoldsForUnsignedNumbers ==
    (parseCall.returned
        /\ \A k \in 1..Len(parseCall.clauses) : parseCall.clauses[k].number.num >= 0)
    => C8_ParseYieldsIdAndNumbers

----------------------------------------------------------------------------
(* Claims about isValueOutOfRange *)

\* C1: a threshold equal to 0 is present: for a non-null value v,
\* isValueOutOfRange(v, null, 0) is v < 0 and isValueOutOfRange(v, 0, null)
\* is v > 0.
C1_ZeroThresholdRespected ==
    (evalCall.returned /\ evalCall.value # NULL) =>
        /\ (evalCall.upperThreshold = NULL /\ evalCall.lowerThreshold = Num(0))
              => (evalCall.result = (evalCall.value.num < 0))
        /\ (evalCall.upperThreshold = Num(0) /\ evalCall.lowerThreshold = NULL)
              => (evalCall.result = (evalCall.value.num > 0))

\* C2: for a non-null value, the result is exactly (upper present and
\* v > upper) or (lower present and v < lower), both comparisons strict.
C2_BreachIffOutsidePresentThresholds ==
    (evalCall.returned /\ evalCall.value # NULL) =>
        evalCall.result =
            (\/ (evalCall.upperThreshold # NULL
                    /\ evalCall.value.num > evalCall.upperThreshold.num)
             \/ (evalCall.lowerThreshold # NULL
                    /\ evalCall.value.num < evalCall.lowerThreshold.num))

----------------------------------------------------------------------------
(* Claims about the breach state in the views *)

\* C3: a monitor whose current value is null is never reported as breached,
\* whatever its thresholds: by isValueOutOfRange, by the alerts view's
\* isActive, by the monitors list, and by the menu bar's active alerts.
C3_NullValueNeverBreached ==
    /\ \A u \in EvalThresholds, l \in EvalThresholds : ~IsValueOutOfRange(NULL, u, l)
    /\ \A k \in 1..Len(ViewAlertsItems) :
          ViewAlertsItems[k].monitor.latest_value = NULL => ~ViewAlertsItems[k].isActive
    /\ HasMonitors =>
          \A k \in 1..Len(monitors.data) :
             monitors.data[k].latest_value = NULL
                => ~ListMonitorsIsBreached(monitors.data[k])
    /\ \A k \in 1..Len(MenuBarActiveAlerts) :
          MenuBarActiveAlerts[k].latest_value # NULL
    /\ HasMonitors =>
          MenuBarActiveAlertsCount
             <= Cardinality({k \in 1..Len(monitors.data) :
                                monitors.data[k].latest_value # NULL})

\* A monitor without a value has a config with a lower threshold of 5 in the
\* alerts view, next to a monitor that is breached.
C3_Witness ==
    /\ \E k \in 1..Len(ViewAlertsItems) :
          /\ ViewAlertsItems[k].monitor.latest_value = NULL
          /\ ViewAlertsItems[k].config.lower_threshold = Num(5)
    /\ \E k \in 1..Len(ViewAlertsItems) : ViewAlertsItems[k].isActive
    /\ MenuBarActiveAlertsCount > 0

----------------------------------------------------------------------------
(* Claims about getAlertConfigs *)

\* A run of getAlertConfigs whose two requests succeeded
AlertsFetched == alerts # UNDEF /\ alerts.rulesOk /\ alerts.monitorsOk /\ ~alerts.threw

\* The configs of the returned list that carry the time stamps of a rule
ConfigsOfRule(rule) ==
    SelectSeq(alerts.data, LAMBDA c : c.created_at = rule.created_at)

FetchedIds == {alerts.monitors[k].id : k \in 1..Len(alerts.monitors)}

Parsed(rule) == ParsedConditions[rule.condition]

HasThreshold(rule) ==
    Parsed(rule).upper_threshold # NULL \/ Parsed(rule).lower_threshold # NULL

IsGlobalRule(rule) == Parsed(rule).monitor_id = NULL

\* C4: no config of the returned list comes from a rule with enabled = false,
\* whatever the rule's condition and whatever other rules are in the list.
C4_DisabledRuleYieldsNoConfig ==
    AlertsFetched =>
        \A r \in 1..Len(alerts.alertRules) :
            ~alerts.alertRules[r].enabled => ConfigsOfRule(alerts.alertRules[r]) = <<>>

\* A disabled rule for every monitor was fetched with monitors, next to an
\* enabled rule that gave configs.
C4_Witness ==
    /\ AlertsFetched
    /\ alerts.monitors # <<>>
    /\ alerts.data # <<>>
    /\ \E r \in 1..Len(alerts.alertRules) :
          /\ ~alerts.alertRules[r].enabled
          /\ alerts.alertRules[r].condition = GlobalCondition

\* C5: every returned config has an upper or a lower threshold, and a rule
\* whose condition yields neither gives no config.
C5_EveryConfigHasAThreshold ==
    AlertsFetched =>
        /\ \A k \in 1..Len(alerts.data) :
              alerts.data[k].upper_threshold # NULL \/ alerts.data[k].lower_threshold # NULL
        /\ \A r \in 1..Len(alerts.alertRules) :
              ~HasThreshold(alerts.alertRules[r])
                 => ConfigsOfRule(alerts.alertRules[r]) = <<>>

\* An enabled rule "foo bar" was fetched with monitors, next to a rule that
\* gave configs.
C5_Witness ==
    /\ AlertsFetched
    /\ alerts.monitors # <<>>
    /\ alerts.data # <<>>
    /\ \E r \in 1..Len(alerts.alertRules) :
          /\ alerts.alertRules[r].enabled
          /\ alerts.alertRules[r].condition = FooBar

\* C6: an enabled rule with a threshold that names a monitor gives exactly one
\* config, for that monitor, when the monitor is in the fetched list, and
\* none when it is not; no config is for a monitor outside the fetched list.
C6_SpecificRuleYieldsOneConfigIfMonitorExists ==
    AlertsFetched =>
        /\ \A r \in 1..Len(alerts.alertRules) :
              LET rule == alerts.alertRules[r]
                  id == Parsed(rule).monitor_id
              IN  (rule.enabled /\ HasThreshold(rule) /\ ~IsGlobalRule(rule)) =>
                     IF id \in FetchedIds
                     THEN /\ Len(ConfigsOfRule(rule)) = 1
                          /\ ConfigsOfRule(rule)[1].monitor_id = id
                     ELSE ConfigsOfRule(rule) = <<>>
        /\ \A k \in 1..Len(alerts.data) : alerts.data[k].monitor_id \in FetchedIds

\* An enabled rule for m2 was fetched with a list of two or more monitors
\* that holds m2 and gave its config.
C6_Witness ==
    /\ AlertsFetched
    /\ Len(alerts.monitors) >= 2
    /\ M2 \in FetchedIds
    /\ \E r \in 1..Len(alerts.alertRules) :
          /\ alerts.alertRules[r].enabled
          /\ alerts.alertRules[r].condition = M2Condition
          /\ Len(ConfigsOfRule(alerts.alertRules[r])) = 1

\* C7: an enabled rule with a threshold that names no monitor gives exactly
\* one config for each fetched monitor and no other, all with the rule's
\* thresholds and level.
C7_GlobalRuleYieldsOneConfigPerMonitor ==
    AlertsFetched =>
        \A r \in 1..Len(alerts.alertRules) :
            LET rule == alerts.alertRules[r]
                parsed == Parsed(rule)
                configs == ConfigsOfRule(rule)
            IN  (rule.enabled /\ HasThreshold(rule) /\ IsGlobalRule(rule)) =>
                   /\ Len(configs) = Len(alerts.monitors)
                   /\ \A id \in FetchedIds :
                         Cardinality({k \in 1..Len(configs) : configs[k].monitor_id = id}) = 1
                   /\ \A k \in 1..Len(configs) :
                         /\ configs[k].upper_threshold = parsed.upper_threshold
                         /\ configs[k].lower_threshold = parsed.lower_threshold
                         /\ configs[k].alert_level = rule.level

\* An enabled rule for every monitor was fetched with three monitors and gave
\* three configs with an upper threshold of 100.
C7_Witness ==
    /\ AlertsFetched
    /\ Len(alerts.monitors) = 3
    /\ \E r \in 1..Len(alerts.alertRules) :
          /\ alerts.alertRules[r].enabled
          /\ alerts.alertRules[r].condition = GlobalCondition
          /\ Len(ConfigsOfRule(alerts.alertRules[r])) = 3
          /\ ConfigsOfRule(alerts.alertRules[r])[1].upper_threshold = Num(100)

\* C9: a run of getMonitors or of getAlertConfigs with a failed request
\* returns the empty list and does not throw; getAlertConfigs does so when
\* only one of its two requests failed.
C9_FailedRequestYieldsEmptyList ==
    /\ monitors # UNDEF =>
          /\ ~monitors.threw
          /\ ~monitors.ok => monitors.data = <<>>
    /\ alerts # UNDEF =>
          /\ ~alerts.threw
          /\ (~alerts.rulesOk \/ ~alerts.monitorsOk) => alerts.data = <<>>

\* getAlertConfigs ran with its rule request answered and its monitor request
\* failed, against a backend whose rules and monitors give configs; getMonitors
\* ran with its request failed.
C9_Witness ==
    /\ monitors # UNDEF
    /\ ~monitors.ok
    /\ alerts # UNDEF
    /\ alerts.rulesOk
    /\ ~alerts.monitorsOk
    /\ AlertConfigsLoop(apiRules, apiMonitors, 1, <<>>) # <<>>

----------------------------------------------------------------------------
(* Claims about the lookup map of the views *)

\* The last position of the list whose config is for the monitor id
LastConfigFor(configs, id) ==
    CHOOSE k \in 1..Len(configs) :
        /\ configs[k].monitor_id = id
        /\ \A j \in (k + 1)..Len(configs) : configs[j].monitor_id # id

IsLastWinsMap(map, configs) ==
    /\ DOMAIN map = {configs[k].monitor_id : k \in 1..Len(configs)}
    /\ \A id \in DOMAIN map : map[id] = configs[LastConfigFor(configs, id)]

\* C10: the lookup map each view builds from the returned list holds, for
\* every monitor with a config, the one that comes last in the list; two
\* configs of the list for one monitor come from two distinct rules.
C10_LookupMapKeepsLastConfig ==
    HasAlerts =>
        /\ IsLastWinsMap(ListMonitorsAlertMap(alerts.data), alerts.data)
        /\ IsLastWinsMap(NewMap(alerts.data), alerts.data)
        /\ IsLastWinsMap(MenuBarAlerts, alerts.data)
        /\ \A j, k \in 1..Len(alerts.data) :
              (j < k /\ alerts.data[j].monitor_id = alerts.data[k].monitor_id)
                 => alerts.data[j].created_at # alerts.data[k].created_at

\* The list holds two configs for m2 with different upper thresholds, and
\* the map holds the later one.
C10_Witness ==
    /\ HasAlerts
    /\ \E j, k \in 1..Len(alerts.data) :
          /\ j < k
          /\ alerts.data[j].monitor_id = M2
          /\ alerts.data[k].monitor_id = M2
          /\ alerts.data[j].upper_threshold # alerts.data[k].upper_threshold
          /\ NewMap(alerts.data)[M2] = alerts.data[k]
          /\ ListMonitorsAlertMap(alerts.data)[M2] = alerts.data[k]

----------------------------------------------------------------------------
(* Claims about getMonitors *)

\* The fields of a MonitorSummary that the formula schema has no source for
MonitorSummaryFields ==
    {"monitor_id", "latest_value", "min_value", "max_value", "avg_value", "tags",
     "total_records", "change_count"}

\* C19: getMonitors, when its request succeeds, returns one MonitorSummary per
\* backend monitor, in the backend's order, with monitor_id the backend id and
\* latest_value the backend value, and with min_value, max_value, avg_value
\* and tags present and null and total_records and change_count present and 0.
C19_GetMonitorsNormalizesEveryMonitor ==
    (monitors # UNDEF /\ monitors.ok) =>
        /\ ~monitors.threw
        /\ Len(monitors.data) = Len(monitors.apiMonitors)
        /\ \A k \in 1..Len(monitors.data) :
              LET summary == monitors.data[k]
              IN  /\ MonitorSummaryFields \subseteq DOMAIN summary
                  /\ summary.monitor_id = monitors.apiMonitors[k].id
                  /\ summary.latest_value = monitors.apiMonitors[k].value
                  /\ summary.min_value = NULL
                  /\ summary.max_value = NULL
                  /\ summary.avg_value = NULL
                  /\ summary.tags = NULL
                  /\ summary.total_records = 0
                  /\ summary.change_count = 0

\* getMonitors has returned three monitors in an order other than m1, m2, m3,
\* one of them without a value.
C19_Witness ==
    /\ monitors # UNDEF
    /\ monitors.ok
    /\ Len(monitors.data) = 3
    /\ monitors.data[1].monitor_id = M3
    /\ monitors.data[2].monitor_id = M1
    /\ monitors.data[2].latest_value = NULL
    /\ monitors.data[3].latest_value = Num(150)

----------------------------------------------------------------------------
(* Claims about the custom strategy *)

\* A view has sorted its list under a strategy.
Sorted(view, sortBy) ==
    sortCall.returned /\ sortCall.view = view /\ sortCall.sortBy = sortBy

\* The monitor of an item of the sorted list
ItemMonitor(item) == IF sortCall.view = "alerts" THEN item.monitor ELSE item

ResultMonitor(k) == ItemMonitor(sortCall.result[k])

ResultIds == [k \in 1..Len(sortCall.result) |-> ResultMonitor(k).monitor_id]

\* The sorted list holds the items of the view's list, each once.
ResultIsPermutation ==
    LET input == SortInput(sortCall)
    IN  /\ Len(sortCall.result) = Len(input)
        /\ \A k \in 1..Len(input) :
              \E i \in 1..Len(sortCall.result) : sortCall.result[i] = input[k]

Listed(k) == IndexOf(sortCall.customOrder, ResultMonitor(k).monitor_id) # -1

\* Items i and j of the sorted list are in ascending case-insensitive name order.
NameAscending(i, j) ==
    LocaleCompare(LowerName(ResultMonitor(i)), LowerName(ResultMonitor(j))) <= 0

\* C11: under the custom strategy, in the monitors list, the alerts view and
\* the menu bar, every item whose monitor id is in the custom order comes
\* before every item whose id is not, and the listed items are in the order
\* of their positions in the custom order.
C11_CustomOrderListedFirstInListOrder ==
    \A view \in SortViews :
        Sorted(view, "custom") =>
            /\ ResultIsPermutation
            /\ \A i, j \in 1..Len(sortCall.result) :
                  i < j =>
                      /\ Listed(j) => Listed(i)
                      /\ (Listed(i) /\ Listed(j)) =>
                            IndexOf(sortCall.customOrder, ResultMonitor(i).monitor_id)
                                < IndexOf(sortCall.customOrder, ResultMonitor(j).monitor_id)

\* The alerts view was given m1, m2, m3 with a custom order of m3, m1, and
\* shows m3, m1, m2.
C11_Witness ==
    /\ Sorted("alerts", "custom")
    /\ sortCall.customOrder = <<M3, M1>>
    /\ [k \in 1..Len(apiMonitors) |-> apiMonitors[k].id] = <<M1, M2, M3>>
    /\ ResultIds = <<M3, M1, M2>>

----------------------------------------------------------------------------
(* Claims about the other strategies *)

ResultRank(k) == LevelOrder(sortCall.result[k].config.alert_level)

\* C13: under the status strategy of the alerts view, every breached item
\* comes before every item that is not breached, whatever their names and
\* levels, and items of equal breach state are in ascending severity rank
\* (critical 0, high 1, medium 2, low 3, any other level 4).  The breach state
\* of an item is the one the view computed for it.
C13_StatusBreachedFirstThenRank ==
    Sorted("alerts", "status") =>
        /\ ResultIsPermutation
        /\ \A i, j \in 1..Len(sortCall.result) :
              i < j =>
                  /\ sortCall.result[j].isActive => sortCall.result[i].isActive
                  /\ sortCall.result[i].isActive = sortCall.result[j].isActive
                        => ResultRank(i) <= ResultRank(j)

\* The alerts view was given m2 ("btc", high, not breached), m1 ("Btc",
\* critical, breached) and m3 ("eth", low, breached) and shows m1, m3, m2.
C13_Witness ==
    /\ Sorted("alerts", "status")
    /\ [k \in 1..Len(apiMonitors) |-> apiMonitors[k].id] = <<M2, M1, M3>>
    /\ ResultIds = <<M1, M3, M2>>
    /\ [k \in 1..3 |-> sortCall.result[k].isActive] = <<TRUE, TRUE, FALSE>>
    /\ [k \in 1..3 |-> sortCall.result[k].config.alert_level] = <<"critical", "low", "high">>

\* C14: under the level strategy of the alerts view, items are in ascending
\* severity rank, and among items of equal rank every breached item comes
\* before every item that is not breached.
C14_LevelRankThenBreachedFirst ==
    Sorted("alerts", "level") =>
        /\ ResultIsPermutation
        /\ \A i, j \in 1..Len(sortCall.result) :
              i < j =>
                  /\ ResultRank(i) <= ResultRank(j)
                  /\ ResultRank(i) = ResultRank(j)
                        => (sortCall.result[j].isActive => sortCall.result[i].isActive)

\* The alerts view was given m1 (low, not breached), m3 (low, breached) and m4
\* (critical) and shows m4, m3, m1.
C14_Witness ==
    /\ Sorted("alerts", "level")
    /\ [k \in 1..Len(apiMonitors) |-> apiMonitors[k].id] = <<M1, M3, M4>>
    /\ ResultIds = <<M4, M3, M1>>
    /\ [k \in 1..3 |-> sortCall.result[k].config.alert_level] = <<"critical", "low", "low">>
    /\ sortCall.result[2].isActive
    /\ ~sortCall.result[3].isActive

\* C15: under the alertStatus strategy of the monitors list, every monitor
\* that is breached against its config comes before every monitor that is not
\* breached or has no config, and within each of the two groups the monitors
\* are in ascending case-insensitive name order.  The breach state of a
\* monitor is the one the list computes for it.
C15_AlertStatusBreachedFirstThenName ==
    Sorted("list", "alertStatus") =>
        /\ ResultIsPermutation
        /\ \A i, j \in 1..Len(sortCall.result) :
              i < j =>
                  /\ ListMonitorsIsBreached(sortCall.result[j])
                        => ListMonitorsIsBreached(sortCall.result[i])
                  /\ ListMonitorsIsBreached(sortCall.result[i])
                        = ListMonitorsIsBreached(sortCall.result[j])
                        => NameAscending(i, j)

\* The monitors list was given m4 (no config), m1 ("Btc", not breached) and
\* m3 ("eth", breached) and shows m3, m1, m4.
C15_Witness ==
    /\ Sorted("list", "alertStatus")
    /\ [k \in 1..Len(apiMonitors) |-> apiMonitors[k].id] = <<M4, M1, M3>>
    /\ ResultIds = <<M3, M1, M4>>
    /\ ListMonitorsIsBreached(sortCall.result[1])
    /\ ~ListMonitorsIsBreached(sortCall.result[2])
    /\ alerts.data # <<>>
    /\ \A k \in 1..Len(alerts.data) : alerts.data[k].monitor_id # M4

\* C16: under the value strategy, in both views, items are in descending
\* order of current value, and every item without a value comes after every
\* item with one.
C16_ValueDescendingNullLast ==
    \A view \in {"list", "alerts"} :
        Sorted(view, "value") =>
            /\ ResultIsPermutation
            /\ \A i, j \in 1..Len(sortCall.result) :
                  i < j =>
                      /\ ResultMonitor(i).latest_value = NULL
                            => ResultMonitor(j).latest_value = NULL
                      /\ (ResultMonitor(i).latest_value # NULL
                             /\ ResultMonitor(j).latest_value # NULL)
                            => ~NumGt(ResultMonitor(j).latest_value,
                                      ResultMonitor(i).latest_value)

\* The monitors list was given m2 (no value), m4 (5) and m1 (150) and shows
\* m1, m4, m2.
C16_Witness ==
    /\ Sorted("list", "value")
    /\ [k \in 1..Len(apiMonitors) |-> apiMonitors[k].value] = <<NULL, Num(5), Num(150)>>
    /\ ResultIds = <<M1, M4, M2>>

\* C17: sorting by name is idempotent: in both views, the name sort of the
\* name-sorted list is that list again.
C17_NameSortIdempotent ==
    \A view \in {"list", "alerts"} :
        Sorted(view, "name") =>
            /\ ResultIsPermutation
            /\ ArraySort(sortCall, sortCall.result) = sortCall.result

\* The monitors list was given m3 ("eth"), m2 ("btc") and m1 ("Btc") and shows
\* m2, m1, m3: the two monitors of equal name keep their order.
C17_Witness ==
    /\ Sorted("list", "name")
    /\ [k \in 1..Len(apiMonitors) |-> apiMonitors[k].id] = <<M3, M2, M1>>
    /\ ResultIds = <<M2, M1, M3>>

----------------------------------------------------------------------------
(* Claims about the comparators *)

\* The place of an item of the view's list in the sorted list
PlaceInResult(item) ==
    CHOOSE k \in 1..Len(sortCall.result) : sortCall.result[k] = item

\* The comparator of the sort at hand, as sort reads it, is a total preorder
\* on the items of the view's list.
ComparatorIsTotalPreorder ==
    LET input == SortInput(sortCall)
        items == {input[k] : k \in 1..Len(input)}
    IN  /\ \A a, b \in items :
              SortCompare(sortCall, a, b) = 0 - SortCompare(sortCall, b, a)
        /\ \A a, b, c \in items :
              (SortCompare(sortCall, a, b) <= 0 /\ SortCompare(sortCall, b, c) <= 0)
                  => SortCompare(sortCall, a, c) <= 0

\* The sorted list is in the comparator's order, items the comparator reports
\* as equal are in their input order, and sorting it again changes nothing.
SortIsStable ==
    LET input == SortInput(sortCall)
    IN  /\ ResultIsPermutation
        /\ \A i, j \in 1..Len(sortCall.result) :
              i < j => SortCompare(sortCall, sortCall.result[i], sortCall.result[j]) <= 0
        /\ \A i, j \in 1..Len(input) :
              (i < j /\ SortCompare(sortCall, input[i], input[j]) = 0)
                  => PlaceInResult(input[i]) < PlaceInResult(input[j])
        /\ ArraySort(sortCall, sortCall.result) = sortCall.result

\* C18: for every sort strategy of the monitors list and of the alerts view,
\* the comparator is a total preorder (compare(a, b) and compare(b, a) have
\* opposite signs or are both zero, and the order is transitive), and items
\* the comparator reports as equal keep their input order, so that sorting
\* unchanged data again gives the same sequence.
C18_ComparatorsTotalAndStable ==
    (sortCall.view \in {"list", "alerts"} /\ sortCall.returned) =>
        /\ ComparatorIsTotalPreorder
        /\ SortIsStable

\* The statement of C18 holds of every strategy but lastUpdated.
C18_HoldsExceptLastUpdated ==
    (sortCall.view \in {"list", "alerts"} /\ sortCall.returned
        /\ sortCall.sortBy # "lastUpdated") =>
        /\ ComparatorIsTotalPreorder
        /\ SortIsStable

----------------------------------------------------------------------------
(* Claims about the forms *)

\* The text writes a decimal number: digits with at most one point
IsDecimalLiteral(s) ==
    /\ \A k \in 1..Len(s) : IsNumChar(s[k])
    /\ \E k \in 1..Len(s) : IsDigit(s[k])
    /\ Cardinality({k \in 1..Len(s) : s[k] = "."}) <= 1

\* The text of a field is a valid number: a decimal number, with or without
\* a sign, and nothing else but white space around it.
IsNumberText(text) ==
    LET trimmed == Trim(text)
        signed == trimmed # <<>> /\ trimmed[1] \in {"-", "+"}
    IN  IsDecimalLiteral(IF signed THEN Tail(trimmed) ELSE trimmed)

HasDigit(text) == \E k \in 1..Len(text) : IsDigit(text[k])

\* A numeric field of the form is not a valid number (a threshold left empty
\* is no threshold), or the required name is empty.
InvalidFields(call) ==
    IF call.form = "editAlert"
    THEN \/ call.upperThreshold # <<>> /\ ~IsNumberText(call.upperThreshold)
         \/ call.lowerThreshold # <<>> /\ ~IsNumberText(call.lowerThreshold)
    ELSE ~IsNumberText(call.value) \/ Trim(call.name) = <<>>

\* C20: in the create-constant, edit-constant and edit-alert forms, a submit
\* whose numeric field is not a valid number or whose required name is empty
\* is rejected before any backend request: no api call happens, the form
\* stays open and a failure notification is shown.
C20_InvalidSubmitRejectedLocally ==
    (formCall.submits > 0 /\ InvalidFields(formCall)) =>
        /\ formCall.apiCalls = 0
        /\ formCall.open
        /\ formCall.toast = "failure"

\* The statement of C20 holds of the submits whose name is empty or whose
\* invalid numeric field has no digit in it.
C20_HoldsForTextsWithoutDigits ==
    LET invalid(text) == ~IsNumberText(text) /\ ~HasDigit(text)
        fields == IF formCall.form = "editAlert"
                  THEN \/ formCall.upperThreshold # <<>> /\ invalid(formCall.upperThreshold)
                       \/ formCall.lowerThreshold # <<>> /\ invalid(formCall.lowerThreshold)
                  ELSE invalid(formCall.value) \/ Trim(formCall.name) = <<>>
    IN  (formCall.submits > 0 /\ fields) =>
            /\ formCall.apiCalls = 0
            /\ formCall.open
            /\ formCall.toast = "failure"

----------------------------------------------------------------------------
(* Claims about the order of the configs getAlertConfigs returns *)

\* The positions of the returned list whose config carries a rule's stamps
PositionsOfRule(rule) ==
    {k \in 1..Len(alerts.data) : alerts.data[k].created_at = rule.created_at}

\* C24: in the list getAlertConfigs returns, the configs of one rule are
\* next to each other, the groups of the rules follow the order of the
\* backend's rule list, and the configs of a rule for every monitor follow
\* the order of the fetched monitor list.
C24_ConfigsGroupedInRuleOrder ==
    AlertsFetched =>
        /\ \A r \in 1..Len(alerts.alertRules) :
              LET positions == PositionsOfRule(alerts.alertRules[r])
              IN  \A a \in positions, b \in positions :
                     \A k \in a..b : k \in positions
        /\ \A r1 \in 1..Len(alerts.alertRules), r2 \in 1..Len(alerts.alertRules) :
              r1 < r2 =>
                 \A a \in PositionsOfRule(alerts.alertRules[r1]),
                    b \in PositionsOfRule(alerts.alertRules[r2]) : a < b
        /\ \A r \in 1..Len(alerts.alertRules) :
              LET rule == alerts.alertRules[r]
                  configs == ConfigsOfRule(rule)
              IN  (rule.enabled /\ HasThreshold(rule) /\ IsGlobalRule(rule)) =>
                     /\ Len(configs) = Len(alerts.monitors)
                     /\ \A k \in 1..Len(configs) :
                           configs[k].monitor_id = alerts.monitors[k].id

\* A rule for the monitor m2 came before a rule for every monitor, three
\* monitors were fetched with m2 last, and the list has the config of the
\* first rule and then the three configs of the second in the fetched order.
C24_Witness ==
    /\ AlertsFetched
    /\ Len(alerts.alertRules) = 2
    /\ alerts.alertRules[1].condition = M2Condition
    /\ alerts.alertRules[2].condition = GlobalCondition
    /\ [k \in 1..Len(alerts.monitors) |-> alerts.monitors[k].id] = <<M3, M1, M2>>
    /\ [k \in 1..Len(alerts.data) |-> alerts.data[k].monitor_id] = <<M2, M3, M1, M2>>
    /\ [k \in 1..Len(alerts.data) |-> alerts.data[k].created_at] = <<1, 2, 2, 2>>

----------------------------------------------------------------------------
(* Claims about request and login *)

\* The calls of request an operation made
CallsOf(operation) == {i \in 1..Len(session.calls) : session.calls[i].operation = operation}

Settled(call) == call.pc \in {"returned", "threw"}

\* C21: no request is retried.  A call of request sends its HTTP request at
\* most once and logs in at most once, also after its request failed; an
\* operation sends the request to each of its endpoints at most once; a
\* failed request is sent again only by a later operation.
C21_NoRequestSentTwice ==
    /\ \A i \in 1..Len(session.calls) :
          /\ session.calls[i].fetches <= 1
          /\ session.calls[i].logins <= 1
          /\ Settled(session.calls[i]) => session.calls[i].fetches = 1
    /\ \A n \in 1..session.operations :
          \A i \in CallsOf(n), j \in CallsOf(n) :
             session.calls[i].endpoint = session.calls[j].endpoint => i = j

\* The request for the rules of getAlertConfigs failed, both of its requests
\* were sent once, and a later run of getAlertConfigs sent the request again.
C21_Witness ==
    /\ Len(session.calls) = 4
    /\ session.calls[1].name = "getAlertConfigs"
    /\ session.calls[1].pc = "threw"
    /\ session.calls[2].pc = "returned"
    /\ session.calls[1].fetches = 1
    /\ session.calls[2].fetches = 1
    /\ session.calls[3].name = "getAlertConfigs"
    /\ session.calls[3].endpoint = session.calls[1].endpoint
    /\ session.calls[3].cookieAtStart # NULL
    /\ session.calls[3].fetches = 1

\* C22: once the client holds a session cookie, it holds one for ever, no
\* call of request calls login, and every request that is sent carries the
\* cookie the client holds in its Cookie header.
C22_StoredCookieReused ==
    [][sessionCookie # NULL =>
          /\ sessionCookie' # NULL
          /\ \A i \in 1..Len(session'.calls) :
                LET after == session'.calls[i]
                    loginsBefore == IF i <= Len(session.calls)
                                    THEN session.calls[i].logins ELSE 0
                    fetchesBefore == IF i <= Len(session.calls)
                                     THEN session.calls[i].fetches ELSE 0
                IN  /\ after.logins = loginsBefore
                    /\ after.fetches > fetchesBefore =>
                          /\ after.sentCookie # NULL
                          /\ after.sentCookie = sessionCookie']_vars

\* A first call logged in, stored the cookie of the login and sent it; a
\* later call sent the stored cookie without logging in, its response was
\* not ok and had no cookie, and the client still holds the cookie.
C22_Witness ==
    /\ Len(session.calls) = 2
    /\ session.calls[1].logins = 1
    /\ session.calls[1].sentCookie = COOKIE
    /\ session.calls[1].pc = "returned"
    /\ session.calls[2].cookieAtStart = COOKIE
    /\ session.calls[2].logins = 0
    /\ session.calls[2].fetches = 1
    /\ session.calls[2].sentCookie = COOKIE
    /\ session.calls[2].pc = "threw"
    /\ sessionCookie = COOKIE

\* C25: the calls of request that one operation starts together while the
\* client holds no cookie call login at most once between them.
C25_LoginAtMostOncePerOperation ==
    \A n \in 1..session.operations :
        Cardinality({i \in CallsOf(n) : session.calls[i].logins > 0}) <= 1

----------------------------------------------------------------------------
(* Claims about the menu bar *)

\* The monitor of the menu bar's title
MenuBarTitle == PrimaryMonitor(MenuBarPinned, menuBar.currentIndex)

\* The place of the title's monitor in the pinned list, from 0
TitlePosition == menuBar.currentIndex % Len(MenuBarPinned)

\* C23: with two or more pinned monitors, a tick of the timer moves the
\* title from its place in the pinned list to the next place, and from the
\* last place to the first; with one pinned monitor or none no tick happens;
\* and as the timer keeps firing, every monitor that stays pinned next to
\* another is the title again and again.
C23_TitleRotatesThroughPinned ==
    /\ [][menuBar'.currentIndex # menuBar.currentIndex =>
             /\ Len(MenuBarPinned) >= 2
             /\ MenuBarPinned' = MenuBarPinned
             /\ TitlePosition' = (TitlePosition + 1) % Len(MenuBarPinned)
             /\ MenuBarTitle' = MenuBarPinned[((TitlePosition + 1) % Len(MenuBarPinned)) + 1]]_vars
    /\ \A k \in 1..Len(MonitorIds) :
          []<>(\/ Len(MenuBarPinned) < 2
               \/ \A p \in 1..Len(MenuBarPinned) :
                     MenuBarPinned[p].monitor_id # MonitorIds[k]
               \/ MenuBarTitle.monitor_id = MonitorIds[k])

\* The preference is "m3, m2,m1", the three monitors resolve, and after two
\* ticks the title is the last pinned monitor, m1.
C23_Witness ==
    /\ menuBar.running
    /\ menuBar.monitorIds = <<M3, M2, M1>>
    /\ Len(MenuBarPinned) = 3
    /\ menuBar.currentIndex = 2
    /\ MenuBarTitle.monitor_id = M1

\* C29: the title's monitor is one of the pinned monitors whenever there is
\* a pinned monitor, and there is no title monitor exactly when there is
\* none; the rotation index selects a place inside the list.
C29_TitleIsPinned ==
    menuBar.running =>
        /\ MenuBarPinned # <<>> =>
              /\ \E p \in 1..Len(MenuBarPinned) : MenuBarTitle = MenuBarPinned[p]
              /\ TitlePosition \in 0..(Len(MenuBarPinned) - 1)
        /\ (MenuBarTitle = UNDEF) <=> (MenuBarPinned = <<>>)

\* The rotation index is 2 after ticks over three pinned monitors, a refresh
\* left two of them, and the title is the first of the two.
C29_Witness ==
    /\ menuBar.running
    /\ Len(menuBar.monitorIds) = 3
    /\ Len(MenuBarPinned) = 2
    /\ menuBar.currentIndex = 2
    /\ MenuBarTitle = MenuBarPinned[1]

----------------------------------------------------------------------------
(* Claims about the local aliases and tags *)

StoredAliases == GetAll(store.aliases)

StoredTags == GetAll(store.tags)

\* Call i wrote before call j read
RanBefore(i, j) ==
    store.calls[i].wroteAt # 0 /\ store.calls[i].wroteAt < store.calls[j].readAt

\* The calls so far ran one at a time.
OneAtATime ==
    \A i \in 1..Len(store.calls), j \in 1..Len(store.calls) :
        i < j => RanBefore(i, j)

IsBlank(text) == \A k \in 1..Len(text) : IsSpace(text[k])

\* The entry a set call asks for: NULL when it asks for none
EntryAsked(call) ==
    IF call.fn = "setMonitorAlias"
    THEN IF IsBlank(call.alias) THEN NULL ELSE [value |-> Trim(call.alias)]
    ELSE IF call.fn = "setMonitorTags"
         THEN LET kept == SelectSeq(call.tags, LAMBDA t : ~IsBlank(t))
              IN  IF kept = <<>> THEN NULL
                  ELSE [value |-> [k \in 1..Len(kept) |-> Trim(kept[k])]]
    ELSE NULL

\* The entry of a monitor in an object: NULL when it has none
EntryOf(object, monitorId) ==
    IF monitorId \in DOMAIN object THEN [value |-> object[monitorId]] ELSE NULL

\* Two set calls of one function for two monitors, both complete, are all
\* the calls so far.
TwoSetCallsDone ==
    /\ Len(store.calls) = 2
    /\ store.calls[1].fn = store.calls[2].fn
    /\ store.calls[1].fn \in {"setMonitorAlias", "setMonitorTags"}
    /\ store.calls[1].monitorId # store.calls[2].monitorId
    /\ store.calls[1].pc = "done"
    /\ store.calls[2].pc = "done"

BothEntriesStored ==
    \A i \in 1..2 :
        EntryOf(IF OnAliases(store.calls[i]) THEN StoredAliases ELSE StoredTags,
                store.calls[i].monitorId) = EntryAsked(store.calls[i])

\* C26 as stated: after two setMonitorAlias calls, or two setMonitorTags
\* calls, for different monitors, with their reads and writes in any order,
\* the store has the entries of both.
C26_BothEntriesKeptInAnyInterleaving ==
    TwoSetCallsDone => BothEntriesStored

\* C26, amended: after two setMonitorAlias calls, or two setMonitorTags
\* calls, for different monitors, the second reading after the first wrote,
\* the store has the entries of both.
C26_BothEntriesKeptWhenOneAfterTheOther ==
    (TwoSetCallsDone /\ OneAtATime) => BothEntriesStored

\* setMonitorAlias(m1, "a") wrote, then setMonitorAlias(m2, " b ") read and
\* wrote, and the stored text has both aliases.
C26_Witness ==
    /\ TwoSetCallsDone
    /\ OneAtATime
    /\ store.calls[1].fn = "setMonitorAlias"
    /\ store.calls[1].monitorId = M1
    /\ store.calls[1].alias = <<"a">>
    /\ store.calls[2].alias = <<" ", "b", " ">>
    /\ Len(store.aliases.text) = 2
    /\ StoredAliases[M1] = <<"a">>
    /\ StoredAliases[M2] = <<"b">>

\* C30: while the calls run one at a time from an empty store, no stored
\* alias is empty or blank, no stored tag list is empty or has an empty tag,
\* every stored text has no space at either end; and after each call the
\* monitor of the call has the trimmed entry the call asked for, none for a
\* blank alias, an empty tag list or a delete, and every other monitor has
\* the entry it had before the call.
C30_StoredEntriesCleanAndOthersKept ==
    OneAtATime =>
        /\ \A id \in DOMAIN StoredAliases :
              /\ ~IsBlank(StoredAliases[id])
              /\ Trim(StoredAliases[id]) = StoredAliases[id]
        /\ \A id \in DOMAIN StoredTags :
              /\ StoredTags[id] # <<>>
              /\ \A k \in 1..Len(StoredTags[id]) :
                    /\ StoredTags[id][k] # <<>>
                    /\ Trim(StoredTags[id][k]) = StoredTags[id][k]
        /\ store.calls # <<>> /\ store.calls[Len(store.calls)].pc = "done" =>
              LET call == store.calls[Len(store.calls)]
                  now == IF OnAliases(call) THEN StoredAliases ELSE StoredTags
              IN  /\ EntryOf(now, call.monitorId) = EntryAsked(call)
                  /\ \A k \in 1..Len(StoreIds) :
                        StoreIds[k] # call.monitorId =>
                           EntryOf(now, StoreIds[k]) = EntryOf(call.before, StoreIds[k])

\* setMonitorTags(m2, [" x ", ""]) stored the one tag "x"; then
\* setMonitorTags(m1, ["", " "]) stored nothing for m1 and left m2's tags.
C30_Witness ==
    /\ OneAtATime
    /\ Len(store.calls) = 2
    /\ store.calls[1].fn = "setMonitorTags"
    /\ store.calls[1].monitorId = M2
    /\ store.calls[1].tags = <<<<" ", "x", " ">>, <<>>>>
    /\ store.calls[2].fn = "setMonitorTags"
    /\ store.calls[2].monitorId = M1
    /\ store.calls[2].tags = <<<<>>, <<" ">>>>
    /\ store.calls[2].pc = "done"
    /\ DOMAIN StoredTags = {M2}
    /\ StoredTags[M2] = <<<<"x">>>>

----------------------------------------------------------------------------
(* Claims about the alert config actions *)

\* The first getAlertConfigs after the action ran and both of its requests
\* succeeded.
RevalidatedAfterWrite == writeCall.revalidated /\ AlertsFetched

\* null for a threshold that was not given
GivenOrNull(threshold) == IF threshold = UNDEF THEN NULL ELSE threshold

\* C27: after updateAlertConfig(m, upper, lower, level) with a threshold
\* succeeded for a monitor m the backend has, the next getAlertConfigs
\* returns a config for m with the level and the thresholds of the call, and
\* the rule of the call gives no config for another monitor.
C27_UpdateThenGetRoundTrip ==
    (/\ writeCall.action = "update"
     /\ ~writeCall.threw
     /\ writeCall.upperThreshold # UNDEF \/ writeCall.lowerThreshold # UNDEF
     /\ RevalidatedAfterWrite) =>
        LET positions == {k \in 1..Len(alerts.data) :
                             alerts.data[k].created_at = writeCall.stamp}
        IN  /\ \A k \in positions : alerts.data[k].monitor_id = writeCall.monitorId
            /\ (\E j \in 1..Len(alerts.monitors) :
                   alerts.monitors[j].id = writeCall.monitorId) =>
                  \E k \in positions :
                     /\ alerts.data[k].upper_threshold =
                           GivenOrNull(writeCall.upperThreshold)
                     /\ alerts.data[k].lower_threshold =
                           GivenOrNull(writeCall.lowerThreshold)
                     /\ alerts.data[k].alert_level = writeCall.alertLevel

\* C28: after the Delete Alert Config action of a monitor showed its
\* success toast, the next getAlertConfigs returns no config for the monitor.
C28_DeleteThenNoConfig ==
    (writeCall.action = "delete" /\ writeCall.toast = "success"
        /\ RevalidatedAfterWrite) =>
        \A k \in 1..Len(alerts.data) : alerts.data[k].monitor_id # writeCall.monitorId

====
